---- MODULE Spec2Model ----
(***************************************************************************)
(* A model of the Loop engine: the day graph (src/src/models/graph.py),    *)
(* its deterministic simulation and path search, the canonical hashes      *)
(* (src/src/models/loop.py) and the path-search operators                  *)
(* (src/src/engine/operators.py).                                          *)
(*                                                                         *)
(* Strings that the code parses by prefix ("KNOW:x", "NOT:KNOW:x",         *)
(* "LEARN:x", ...) are modelled as the sequence of their ':'-separated     *)
(* tokens, so that str.startswith and slicing are computed as the code     *)
(* computes them.  A fact is therefore a token sequence too (<<"x">>).     *)
(* Node ids are never parsed and stay plain strings.                       *)
(* Probabilities and random draws are percentages: probability 1.0 is 100, *)
(* random.random() returns a draw in 0..99.                                *)
(***************************************************************************)
EXTENDS Integers, Sequences, FiniteSets, TLC

VARIABLES
    graph,      \* the DayGraph the calls are made on
    sim,        \* the last simulate_loop call: its arguments and its result
    sim_prev,   \* the simulate_loop call before it (same arguments, fresh draws)
    choices,    \* the last get_valid_choices call
    found,      \* the last find_paths call
    opres,      \* the last operator execute call
    storage,    \* the LoopStorage the operators are constructed with
    objects     \* the set, list and WorldState objects of the caller

vars == <<graph, sim, sim_prev, choices, found, opres, storage, objects>>

None == "None"

(***************************************************************************)
(* Strings as token sequences                                              *)
(***************************************************************************)

\* s.startswith(p + ":"), p a token sequence
startswith(s, p) == Len(s) > Len(p) /\ SubSeq(s, 1, Len(p)) = p

\* s[len(p + ":"):]
strip(s, p) == SubSeq(s, Len(p) + 1, Len(s))

\* Python's order on the strings of the model, given by the rank of each token
\* (upper case before lower case, a proper prefix before its extensions).
TokenOrder ==
    <<"AT", "BOMB_EXPLODED", "CHASE_VILLAIN", "GO_BANK", "KNOW", "NOT", "PROTAGONIST",
      "SAVE_SISTER", "SISTER",
      "SISTER_ALIVE", "SISTER_DEAD", "VILLAIN", "VILLAIN_CAUGHT",
      "VILLAIN_ESCAPED", "lab", "x", "y">>

TokenRank(t) == CHOOSE i \in 1..Len(TokenOrder) : TokenOrder[i] = t

RECURSIVE StrLess(_, _)
StrLess(a, b) ==
    IF a = <<>> THEN b # <<>>
    ELSE IF b = <<>> THEN FALSE
    ELSE IF Head(a) = Head(b) THEN StrLess(Tail(a), Tail(b))
    ELSE TokenRank(Head(a)) < TokenRank(Head(b))

\* sorted(S) of a set of strings
RECURSIVE sorted(_)
sorted(S) ==
    IF S = {} THEN <<>>
    ELSE LET m == CHOOSE x \in S : \A y \in S \ {x} : StrLess(x, y)
         IN <<m>> \o sorted(S \ {m})

\* sorted() reads the set in its iteration order, which depends on how the
\* set was built and on the hash seed of the process: insert(q, x) puts x in
\* its place in a sorted list, sorted_list(order) sorts the elements in the
\* order they are iterated
RECURSIVE insert(_, _)
insert(q, x) ==
    IF q = <<>> THEN <<x>>
    ELSE IF StrLess(x, Head(q)) THEN <<x>> \o q
    ELSE <<Head(q)>> \o insert(Tail(q), x)

\* the list of the elements as they are iterated, not sorted
list(order) == order

RECURSIVE sorted_list(_)
sorted_list(order) ==
    IF order = <<>> THEN <<>>
    ELSE insert(sorted_list(SubSeq(order, 1, Len(order) - 1)), order[Len(order)])

(***************************************************************************)
(* EventNode, Transition                                                   *)
(***************************************************************************)

EventNode(id, time_slot, node_type, location, preconditions, effects) ==
    [id |-> id, time_slot |-> time_slot, node_type |-> node_type,
     location |-> location, preconditions |-> preconditions, effects |-> effects]

Transition(from_node, to_node, conditions, probability) ==
    [from_node |-> from_node, to_node |-> to_node, time_cost |-> 1,
     conditions |-> conditions, probability |-> probability]

is_critical(node) == node.node_type = "critical"
is_death(node) == node.node_type = "death"
is_revelation(node) == node.node_type = "revelation"

precond_holds(precond, knowledge, world_state) ==
    IF startswith(precond, <<"KNOW">>)
    THEN strip(precond, <<"KNOW">>) \in knowledge
    ELSE IF startswith(precond, <<"NOT">>)
    THEN /\ strip(precond, <<"NOT">>) \notin knowledge
         /\ strip(precond, <<"NOT">>) \notin world_state
    ELSE IF startswith(precond, <<"AT">>)
    THEN TRUE
    ELSE precond \in world_state \/ precond \in knowledge

can_enter(node, knowledge, world_state) ==
    \A i \in 1..Len(node.preconditions) :
        precond_holds(node.preconditions[i], knowledge, world_state)

RECURSIVE apply_effect_list(_, _, _)
apply_effect_list(effects, new_knowledge, new_world) ==
    IF effects = <<>> THEN <<new_knowledge, new_world>>
    ELSE LET effect == Head(effects) IN
         IF startswith(effect, <<"LEARN">>)
         THEN apply_effect_list(Tail(effects),
                  new_knowledge \cup {strip(effect, <<"LEARN">>)}, new_world)
         ELSE IF startswith(effect, <<"SET">>)
         THEN apply_effect_list(Tail(effects),
                  new_knowledge, new_world \cup {strip(effect, <<"SET">>)})
         ELSE IF startswith(effect, <<"UNSET">>)
         THEN apply_effect_list(Tail(effects),
                  new_knowledge, new_world \ {strip(effect, <<"UNSET">>)})
         ELSE apply_effect_list(Tail(effects),
                  new_knowledge, new_world \cup {effect})

\* returns <<new_knowledge, new_world>>
apply_effects(node, knowledge, world_state) ==
    apply_effect_list(node.effects, knowledge, world_state)

cond_holds(cond, knowledge, world_state) ==
    IF startswith(cond, <<"KNOW">>)
    THEN strip(cond, <<"KNOW">>) \in knowledge
    ELSE IF startswith(cond, <<"NOT", "KNOW">>)
    THEN strip(cond, <<"NOT", "KNOW">>) \notin knowledge
    ELSE IF startswith(cond, <<"NOT">>)
    THEN strip(cond, <<"NOT">>) \notin world_state
    ELSE cond \in world_state \/ cond \in knowledge

can_traverse(trans, knowledge, world_state) ==
    \A i \in 1..Len(trans.conditions) :
        cond_holds(trans.conditions[i], knowledge, world_state)

\* roll_success with the comparison off by one: a draw equal to the
\* probability passes
roll_success_le(trans, draw) ==
    IF trans.probability >= 100 THEN TRUE ELSE draw <= trans.probability

\* draw is the value random.random() returns, when it is called
roll_success(trans, draw) ==
    IF trans.probability >= 100 THEN TRUE ELSE draw < trans.probability

(***************************************************************************)
(* WorldState                                                              *)
(***************************************************************************)

WorldState(knowledge, world_facts) ==
    [time_slot |-> 0, current_node |-> None, location |-> "",
     knowledge |-> knowledge, world_facts |-> world_facts,
     visited_nodes |-> <<>>, is_dead |-> FALSE, death_node |-> None]

\* visit_node without the death check
visit_node_nodeath(state, node) ==
    LET kw == apply_effects(node, state.knowledge, state.world_facts) IN
    [time_slot |-> node.time_slot,
     current_node |-> node.id,
     location |-> node.location,
     knowledge |-> kw[1],
     world_facts |-> kw[2],
     visited_nodes |-> Append(state.visited_nodes, node.id),
     is_dead |-> state.is_dead,
     death_node |-> state.death_node]

\* visit_node without the append to visited_nodes
visit_node_unlisted(state, node) ==
    [visit_node_nodeath(state, node) EXCEPT
        !.visited_nodes = state.visited_nodes,
        !.is_dead = IF is_death(node) THEN TRUE ELSE state.is_dead,
        !.death_node = IF is_death(node) THEN node.id ELSE state.death_node]

visit_node(state, node) ==
    LET kw == apply_effects(node, state.knowledge, state.world_facts) IN
    [time_slot |-> node.time_slot,
     current_node |-> node.id,
     location |-> node.location,
     knowledge |-> kw[1],
     world_facts |-> kw[2],
     visited_nodes |-> Append(state.visited_nodes, node.id),
     is_dead |-> IF is_death(node) THEN TRUE ELSE state.is_dead,
     death_node |-> IF is_death(node) THEN node.id ELSE state.death_node]

(***************************************************************************)
(* Sets and lists as objects.  cells holds the value of every set and list *)
(* object made so far and a reference is a place in it, so that two names  *)
(* for one object see each other's mutations; states holds the WorldState  *)
(* objects, their knowledge, world_facts and visited_nodes references.     *)
(***************************************************************************)

NoObjects == [cells |-> <<>>, states |-> <<>>, calls |-> 0, last |-> [op |-> "none", self |-> 0]]

\* a new object of the given value; its reference is the last place
new(heap, value) == [heap EXCEPT !.cells = Append(@, value)]
newest(heap) == Len(heap.cells)

\* "x = y": the name x is bound to the object y names, no object is made
same_object(heap, ref) == [heap |-> heap, ref |-> ref]

\* y.copy() that makes no object: a second name for y
copy_unmade(heap, ref) == [heap |-> heap, ref |-> ref]

\* y.copy(): a new object with the value of y
copy(heap, ref) == [heap |-> new(heap, heap.cells[ref]), ref |-> Len(heap.cells) + 1]

\* the loop of apply_effects on the objects new_knowledge and new_world
effects_applied(heap, node, new_knowledge, new_world) ==
    [heap |-> [heap EXCEPT
                  !.cells = [i \in 1..Len(heap.cells) |->
                      IF i = new_world
                      THEN apply_effect_list(node.effects, heap.cells[new_knowledge],
                                             heap.cells[new_world])[2]
                      ELSE IF i = new_knowledge
                      THEN apply_effect_list(node.effects, heap.cells[new_knowledge],
                                             heap.cells[new_world])[1]
                      ELSE heap.cells[i]]],
     new_knowledge |-> new_knowledge, new_world |-> new_world]

\* apply_effects from the copy of knowledge on
apply_effects_to_copy(copied, node, world_state) ==
    effects_applied(copy(copied.heap, world_state).heap, node,
                    copied.ref, copy(copied.heap, world_state).ref)

\* node.apply_effects(knowledge, world_state) on objects: the heap after the
\* call and the two objects returned
apply_effects_of(heap, node, knowledge, world_state) ==
    apply_effects_to_copy(copy(heap, knowledge), node, world_state)

\* WorldState(knowledge=K, world_facts=F): the state object and its three
\* set and list objects
new_state(heap, knowledge, world_facts) ==
    [heap EXCEPT
        !.cells = @ \o <<knowledge, world_facts, <<>>>>,
        !.states = Append(@, [time_slot |-> 0, current_node |-> None, location |-> "",
                              knowledge |-> Len(heap.cells) + 1,
                              world_facts |-> Len(heap.cells) + 2,
                              visited_nodes |-> Len(heap.cells) + 3,
                              is_dead |-> FALSE, death_node |-> None])]

\* a copy that is a second name for the same sets and list
copy_state_shared(heap, self) ==
    [heap EXCEPT !.states = Append(@, heap.states[self])]

\* self.copy_state(): a new state of the copies of the sets and the list
copy_state(heap, self) ==
    [heap EXCEPT
        !.cells = @ \o <<heap.cells[heap.states[self].knowledge],
                          heap.cells[heap.states[self].world_facts],
                          heap.cells[heap.states[self].visited_nodes]>>,
        !.states = Append(@, [heap.states[self] EXCEPT
                                  !.knowledge = Len(heap.cells) + 1,
                                  !.world_facts = Len(heap.cells) + 2,
                                  !.visited_nodes = Len(heap.cells) + 3])]

\* the WorldState a state object stands for
state_of(heap, self) ==
    [heap.states[self] EXCEPT
        !.knowledge = heap.cells[@],
        !.world_facts = heap.cells[@],
        !.visited_nodes = heap.cells[@]]

\* s.add(x), s.discard(x), l.append(x) on the object itself
set_add(heap, ref, x) == [heap EXCEPT !.cells[ref] = @ \cup {x}]
set_discard(heap, ref, x) == [heap EXCEPT !.cells[ref] = @ \ {x}]
list_append(heap, ref, x) == [heap EXCEPT !.cells[ref] = Append(@, x)]

\* the end of visit_node: the sets apply_effects returned are bound to the
\* state's fields, and the death fields are set
visit_node_bind(applied, self, node) ==
    [applied.heap EXCEPT
        !.states[self] =
            [@ EXCEPT !.current_node = node.id,
                      !.time_slot = node.time_slot,
                      !.location = node.location,
                      !.knowledge = applied.new_knowledge,
                      !.world_facts = applied.new_world,
                      !.is_dead = IF is_death(node) THEN TRUE ELSE @,
                      !.death_node = IF is_death(node) THEN node.id ELSE @]]

\* self.visit_node(node) on objects: visited_nodes is appended to in place
visit_node_of(heap, self, node) ==
    visit_node_bind(
        apply_effects_of(list_append(heap, heap.states[self].visited_nodes, node.id), node,
                         heap.states[self].knowledge, heap.states[self].world_facts),
        self, node)

(***************************************************************************)
(* DayGraph: nodes is the dict in insertion order, transitions the list,  *)
(* edges_from and edges_to the two caches.                                 *)
(***************************************************************************)

create_empty_graph ==
    [nodes |-> <<>>, transitions |-> <<>>,
     edges_from |-> [n \in {} |-> <<>>], edges_to |-> [n \in {} |-> <<>>]]

node_ids(G) == {G.nodes[i].id : i \in 1..Len(G.nodes)}

has_node(G, node_id) == node_id \in node_ids(G)

\* self.nodes.get(node_id), for a node_id that is a key
get_node(G, node_id) ==
    G.nodes[CHOOSE i \in 1..Len(G.nodes) : G.nodes[i].id = node_id]

add_node(G, node) ==
    [G EXCEPT
        !.nodes = IF has_node(G, node.id)
                  THEN [i \in 1..Len(G.nodes) |->
                            IF G.nodes[i].id = node.id THEN node ELSE G.nodes[i]]
                  ELSE Append(G.nodes, node),
        !.edges_from = (node.id :> <<>>) @@ G.edges_from,
        !.edges_to = (node.id :> <<>>) @@ G.edges_to]

add_transition(G, transition) ==
    IF ~has_node(G, transition.from_node) THEN G
    ELSE IF ~has_node(G, transition.to_node) THEN G
    ELSE [G EXCEPT
            !.transitions = Append(G.transitions, transition),
            !.edges_from[transition.from_node] = Append(@, transition),
            !.edges_to[transition.to_node] = Append(@, transition)]

\* _build_edge_cache: an empty list for every node, then every transition
\* appended to the lists of its ends
build_edge_cache(G) ==
    [G EXCEPT
        !.edges_from = [n \in node_ids(G) |->
                            SelectSeq(G.transitions, LAMBDA t : t.from_node = n)],
        !.edges_to = [n \in node_ids(G) |->
                          SelectSeq(G.transitions, LAMBDA t : t.to_node = n)]]

remove_node(G, node_id) ==
    IF ~has_node(G, node_id) THEN G
    ELSE build_edge_cache(
             [G EXCEPT
                 !.nodes = SelectSeq(G.nodes, LAMBDA n : n.id # node_id),
                 !.transitions = SelectSeq(G.transitions,
                     LAMBDA t : t.from_node # node_id /\ t.to_node # node_id)])

\* the transitions remove_transition keeps
kept_transitions(G, from_node, to_node) ==
    SelectSeq(G.transitions, LAMBDA t : ~(t.from_node = from_node /\ t.to_node = to_node))

remove_transition(G, from_node, to_node) ==
    IF Len(kept_transitions(G, from_node, to_node)) < Len(G.transitions)
    THEN build_edge_cache([G EXCEPT !.transitions = kept_transitions(G, from_node, to_node)])
    ELSE G

get_transitions_from(G, node_id) ==
    IF node_id \in DOMAIN G.edges_from THEN G.edges_from[node_id] ELSE <<>>

get_transitions_to(G, node_id) ==
    IF node_id \in DOMAIN G.edges_to THEN G.edges_to[node_id] ELSE <<>>

get_nodes_by_type(G, node_type) ==
    SelectSeq(G.nodes, LAMBDA n : n.node_type = node_type)

get_nodes_at_time(G, time_slot) ==
    SelectSeq(G.nodes, LAMBDA n : n.time_slot = time_slot)

get_revelation_nodes(G) == get_nodes_by_type(G, "revelation")
get_death_nodes(G) == get_nodes_by_type(G, "death")
get_critical_nodes(G) == get_nodes_by_type(G, "critical")

has_start_node(G) == get_nodes_at_time(G, 0) # <<>>
get_start_node(G) == get_nodes_at_time(G, 0)[1]

(**************************** find_choke_points **************************)

\* the while loop of _reachable_without_node
RECURSIVE reachable_without(_, _, _, _)
reachable_without(G, excluded, queue, reachable) ==
    IF queue = <<>> THEN reachable
    ELSE LET current == Head(queue) IN
         IF current \in reachable \/ current = excluded
         THEN reachable_without(G, excluded, Tail(queue), reachable)
         ELSE LET next == SelectSeq(get_transitions_from(G, current),
                              LAMBDA trans : /\ trans.to_node \notin (reachable \cup {current})
                                             /\ trans.to_node # excluded)
              IN reachable_without(G, excluded,
                     Tail(queue) \o [i \in 1..Len(next) |-> next[i].to_node],
                     reachable \cup {current})

_reachable_without_node(G, excluded) ==
    IF ~has_start_node(G) \/ get_start_node(G).id = excluded THEN {}
    ELSE reachable_without(G, excluded, <<get_start_node(G).id>>, {})

\* death_nodes - reachable_without
blocked_deaths(G, node_id) ==
    {n.id : n \in {get_death_nodes(G)[i] : i \in 1..Len(get_death_nodes(G))}}
        \ _reachable_without_node(G, node_id)

find_choke_points(G) ==
    LET chokes == SelectSeq(G.nodes,
                      LAMBDA node : is_critical(node) /\ blocked_deaths(G, node.id) # {})
    IN [i \in 1..Len(chokes) |-> chokes[i].id]

(******************************** validate *******************************)

default_total_time_slots == 12

\* errors.append(f"Orphaned node with no incoming edges: {node.id}") for each
\* node of the list
orphaned_errors(q) ==
    [i \in 1..Len(q) |-> <<"Orphaned node with no incoming edges", q[i].id>>]

\* the diagnostics of the nodes with no incoming edge, every node taken for
\* one that may be orphaned, the start node too
orphaned_with_start(G) ==
    orphaned_errors(SelectSeq(G.nodes, LAMBDA n : get_transitions_to(G, n.id) = <<>>))

\* "Check for orphaned nodes"
orphaned(G) ==
    orphaned_errors(SelectSeq(G.nodes,
        LAMBDA n : /\ ~(has_start_node(G) /\ n.id = get_start_node(G).id)
                   /\ get_transitions_to(G, n.id) = <<>>))

time_reversal_errors(G, q) ==
    [i \in 1..Len(q) |->
        <<"Time reversal", q[i].from_node, get_node(G, q[i].from_node).time_slot,
          q[i].to_node, get_node(G, q[i].to_node).time_slot>>]

\* "Check for time consistency"
time_reversals(G) ==
    time_reversal_errors(G, SelectSeq(G.transitions,
        LAMBDA t : /\ has_node(G, t.from_node) /\ has_node(G, t.to_node)
                   /\ get_node(G, t.to_node).time_slot
                          < get_node(G, t.from_node).time_slot))

dead_end_errors(q) ==
    [i \in 1..Len(q) |-> <<"Dead end (non-death node with no exits)", q[i].id>>]

\* "Check for dead ends"
dead_ends(G) ==
    dead_end_errors(SelectSeq(G.nodes,
        LAMBDA n : /\ ~is_death(n)
                   /\ get_transitions_from(G, n.id) = <<>>
                   /\ n.time_slot < default_total_time_slots - 1))

validate(G) ==
    (IF ~has_start_node(G) THEN <<<<"No start node (time_slot=0)">>>> ELSE <<>>)
    \o orphaned(G) \o time_reversals(G) \o dead_ends(G)

RECURSIVE add_nodes(_, _)
add_nodes(G, node_list) ==
    IF node_list = <<>> THEN G
    ELSE add_nodes(add_node(G, Head(node_list)), Tail(node_list))

RECURSIVE add_transitions(_, _)
add_transitions(G, trans_list) ==
    IF trans_list = <<>> THEN G
    ELSE add_transitions(add_transition(G, Head(trans_list)), Tail(trans_list))

\* DayGraph._from_dict: the nodes are added first, then the transitions
from_dict(node_list, trans_list) ==
    add_transitions(add_nodes(create_empty_graph, node_list), trans_list)

(***************************************************************************)
(* Hashes.  SHA-256 of the JSON text is modelled as the serialized data    *)
(* itself (no collisions): the keys with the sorted lists.                 *)
(***************************************************************************)

compute_outcome_hash(survivors, deaths, state_changes, ending_type) ==
    [survivors |-> sorted(survivors), deaths |-> sorted(deaths),
     state_changes |-> sorted(state_changes), ending_type |-> ending_type]

compute_knowledge_id(facts, secrets, skills) ==
    [facts |-> sorted(facts), secrets |-> sorted(secrets), skills |-> sorted(skills)]

\* the two hashes, from the iteration orders of their set arguments
outcome_hash_iterating(survivors, deaths, state_changes, ending_type) ==
    [survivors |-> sorted_list(survivors), deaths |-> sorted_list(deaths),
     state_changes |-> sorted_list(state_changes), ending_type |-> ending_type]

knowledge_id_iterating(facts, secrets, skills) ==
    [facts |-> sorted_list(facts), secrets |-> sorted_list(secrets),
     skills |-> sorted_list(skills)]

(***************************************************************************)
(* Decision vectors.  A dict is the sequence of its items in insertion     *)
(* order, the keys distinct; a vector is a natural number.                 *)
(***************************************************************************)

keys(dict) == {dict[i][1] : i \in 1..Len(dict)}

\* dict[key], for a key of the dict
lookup(dict, key) == dict[CHOOSE i \in 1..Len(dict) : dict[i][1] = key][2]

\* dict[key] = value: the value of a key there is replaced where it stands,
\* a new key is put last
assign(dict, key, value) ==
    IF key \in keys(dict)
    THEN [i \in 1..Len(dict) |-> IF dict[i][1] = key THEN <<key, value>> ELSE dict[i]]
    ELSE Append(dict, <<key, value>>)

\* vec & (1 << bit)
bit_of(vec, bit) == (vec \div 2^bit) % 2

\* vec | (1 << bit)
or_bit(vec, bit) == IF bit_of(vec, bit) = 1 THEN vec ELSE vec + 2^bit

\* the loop of encode_decisions setting the bit of every flag that is named
\* in the map, made or not
RECURSIVE encode_named(_, _, _)
encode_named(items, decision_map, result) ==
    IF items = <<>> THEN result
    ELSE encode_named(Tail(items), decision_map,
             IF Head(items)[1] \in keys(decision_map)
             THEN or_bit(result, lookup(decision_map, Head(items)[1]))
             ELSE result)

\* the loop of encode_decisions over decision_flags.items()
RECURSIVE encode_items(_, _, _)
encode_items(items, decision_map, result) ==
    IF items = <<>> THEN result
    ELSE encode_items(Tail(items), decision_map,
             IF Head(items)[2] /\ Head(items)[1] \in keys(decision_map)
             THEN or_bit(result, lookup(decision_map, Head(items)[1]))
             ELSE result)

encode_decisions(decision_flags, decision_map) == encode_items(decision_flags, decision_map, 0)

\* {v: k for k, v in decision_map.items()}
RECURSIVE reverse_items(_, _)
reverse_items(items, reverse_map) ==
    IF items = <<>> THEN reverse_map
    ELSE reverse_items(Tail(items), assign(reverse_map, Head(items)[2], Head(items)[1]))

\* the loop of decode_decisions over reverse_map.items()
RECURSIVE decode_items(_, _, _)
decode_items(vec, items, result) ==
    IF items = <<>> THEN result
    ELSE decode_items(vec, Tail(items),
             IF bit_of(vec, Head(items)[1]) # 0 THEN Append(result, Head(items)[2])
             ELSE result)

decode_decisions(vec, decision_map) ==
    sorted_list(decode_items(vec, reverse_items(decision_map, <<>>), <<>>))

\* vec1 | vec2, bit by bit
RECURSIVE bitwise_or(_, _)
bitwise_or(vec1, vec2) ==
    IF vec1 = 0 /\ vec2 = 0 THEN 0
    ELSE (IF vec1 % 2 = 1 \/ vec2 % 2 = 1 THEN 1 ELSE 0)
         + 2 * bitwise_or(vec1 \div 2, vec2 \div 2)

\* vec1 ^ vec2, bit by bit
RECURSIVE xor(_, _)
xor(vec1, vec2) ==
    IF vec1 = 0 /\ vec2 = 0 THEN 0
    ELSE (((vec1 % 2) + (vec2 % 2)) % 2) + 2 * xor(vec1 \div 2, vec2 \div 2)

\* bin(x).count('1')
RECURSIVE count_ones(_)
count_ones(x) == IF x = 0 THEN 0 ELSE (x % 2) + count_ones(x \div 2)

hamming_distance(vec1, vec2) == count_ones(xor(vec1, vec2))

\* the loop of mutate_vector with "result |= (1 << bit)"
RECURSIVE set_bits(_, _)
set_bits(result, bits_to_flip) ==
    IF bits_to_flip = <<>> THEN result
    ELSE set_bits(or_bit(result, Head(bits_to_flip)), Tail(bits_to_flip))

\* the loop of mutate_vector: "result ^= (1 << bit)" for every bit drawn
RECURSIVE flip_bits(_, _)
flip_bits(result, bits_to_flip) ==
    IF bits_to_flip = <<>> THEN result
    ELSE flip_bits(xor(result, 2^Head(bits_to_flip)), Tail(bits_to_flip))

\* random.sample(range(max_bits), k): every list of k distinct positions
sample(max_bits, k) ==
    {q \in [1..k -> 0..(max_bits - 1)] : \A i, j \in 1..k : q[i] = q[j] => i = j}

\* bits_to_flip: what random.sample(range(max_bits), min(n_flips, max_bits)) drew
mutate_vector(vec, bits_to_flip) == flip_bits(vec, bits_to_flip)

(***************************************************************************)
(* DayGraph.simulate_loop                                                  *)
(***************************************************************************)

NoMessage == <<>>

SimulationResult ==
    [success |-> TRUE, decision_trace |-> <<>>, terminated_early |-> FALSE,
     death_node |-> None, error_message |-> NoMessage]

\* step_error without the check of the transition's conditions
step_error_nocond(G, decisions, i, state, probabilistic, draw) ==
    LET node_id == decisions[i] IN
    IF ~has_node(G, node_id)
    THEN <<"Node not found", node_id>>
    ELSE
    LET node == get_node(G, node_id)
        prev_node == decisions[i - 1]
        valid_trans == SelectSeq(get_transitions_from(G, prev_node),
                                 LAMBDA t : t.to_node = node_id)
    IN
    IF i > 1 /\ valid_trans = <<>>
    THEN <<"No transition", prev_node, node_id>>
    ELSE IF i > 1 /\ probabilistic /\ ~roll_success(valid_trans[1], draw)
    THEN <<"Probability roll failed", prev_node, node_id>>
    ELSE IF ~can_enter(node, state.knowledge, state.world_facts)
    THEN <<"Cannot enter", node_id>>
    ELSE NoMessage

\* step_error rolling whatever the probabilistic flag says
step_error_rolls(G, decisions, i, state, probabilistic, draw) ==
    LET node_id == decisions[i] IN
    IF ~has_node(G, node_id)
    THEN <<"Node not found", node_id>>
    ELSE
    LET node == get_node(G, node_id)
        prev_node == decisions[i - 1]
        valid_trans == SelectSeq(get_transitions_from(G, prev_node),
                                 LAMBDA t : t.to_node = node_id)
    IN
    IF i > 1 /\ valid_trans = <<>>
    THEN <<"No transition", prev_node, node_id>>
    ELSE IF i > 1 /\ ~can_traverse(valid_trans[1], state.knowledge, state.world_facts)
    THEN <<"Conditions not met", prev_node, node_id>>
    ELSE IF i > 1 /\ ~roll_success(valid_trans[1], draw)
    THEN <<"Probability roll failed", prev_node, node_id>>
    ELSE IF ~can_enter(node, state.knowledge, state.world_facts)
    THEN <<"Cannot enter", node_id>>
    ELSE NoMessage

\* The checks of one iteration of simulate_loop's for loop, in the code's
\* order: the message of the first check that fails, NoMessage when the node is
\* visited.  draw is what random.random() returns if the roll draws.
step_error(G, decisions, i, state, probabilistic, draw) ==
    LET node_id == decisions[i] IN
    IF ~has_node(G, node_id)
    THEN <<"Node not found", node_id>>
    ELSE
    LET node == get_node(G, node_id)
        prev_node == decisions[i - 1]
        transitions == get_transitions_from(G, prev_node)
        valid_trans == SelectSeq(transitions, LAMBDA t : t.to_node = node_id)
        trans == valid_trans[1]
    IN
    IF i > 1 /\ valid_trans = <<>>
    THEN <<"No transition", prev_node, node_id>>
    ELSE IF i > 1 /\ ~can_traverse(trans, state.knowledge, state.world_facts)
    THEN <<"Conditions not met", prev_node, node_id>>
    ELSE IF i > 1 /\ probabilistic /\ ~roll_success(trans, draw)
    THEN <<"Probability roll failed", prev_node, node_id>>
    ELSE IF ~can_enter(node, state.knowledge, state.world_facts)
    THEN <<"Cannot enter", node_id>>
    ELSE NoMessage

\* the for loop of simulate_loop from index i on; draws[i] is the draw of step i
RECURSIVE sim_walk(_, _, _, _, _, _, _)
sim_walk(G, decisions, i, state, result, probabilistic, draws) ==
    IF i > Len(decisions) THEN [state |-> state, result |-> result]
    ELSE
    LET error == step_error(G, decisions, i, state, probabilistic,
                            IF i > 1 THEN draws[i] ELSE 0)
    IN
    IF error # NoMessage
    THEN [state |-> state,
          result |-> [result EXCEPT !.success = FALSE, !.error_message = error,
                                    !.terminated_early = TRUE]]
    ELSE
    LET node_id == decisions[i]
        state2 == visit_node(state, get_node(G, node_id))
        result2 == [result EXCEPT !.decision_trace = Append(@, node_id)]
    IN
    IF state2.is_dead
    THEN [state |-> state2, result |-> [result2 EXCEPT !.death_node = node_id]]
    ELSE \* the next iteration, on the state and the result as they are now
         CHOOSE walked \in {sim_walk(G, decisions, i + 1, s, r, probabilistic, draws) :
                                s \in {state2}, r \in {result2}} : TRUE

\* "Compute final results": the result simulate_loop returns after its loop
final_results(walk, initial_knowledge) ==
    LET state == walk.state
        result == walk.result
        survivors ==
            (IF <<"SISTER_ALIVE">> \in state.world_facts THEN {<<"SISTER">>} ELSE {})
            \cup (IF state.is_dead THEN {} ELSE {<<"PROTAGONIST">>})
            \cup (IF <<"VILLAIN_ESCAPED">> \in state.world_facts THEN {<<"VILLAIN">>} ELSE {})
        deaths ==
            (IF <<"SISTER_DEAD">> \in state.world_facts THEN {<<"SISTER">>} ELSE {})
            \cup (IF state.is_dead THEN {<<"PROTAGONIST">>} ELSE {})
            \cup (IF <<"VILLAIN_CAUGHT">> \in state.world_facts THEN {<<"VILLAIN">>} ELSE {})
        ending ==
            IF <<"BOMB_EXPLODED">> \in state.world_facts THEN "explosion"
            ELSE IF state.is_dead THEN "death" ELSE "survived"
    IN
    [success |-> result.success,
     final_state |-> state,
     decision_trace |-> result.decision_trace,
     knowledge_gained |-> state.knowledge \ initial_knowledge,
     outcome_hash |-> compute_outcome_hash(survivors, deaths, state.world_facts, ending),
     knowledge_id |-> compute_knowledge_id(state.knowledge, {}, {}),
     terminated_early |-> result.terminated_early,
     death_node |-> result.death_node,
     error_message |-> result.error_message]

\* the loop is run once and the final results are computed from what it left
simulate_loop(G, decisions, initial_knowledge, initial_world, probabilistic, draws) ==
    CHOOSE result \in
        {final_results(walk, initial_knowledge) :
            walk \in {sim_walk(G, decisions, 1, WorldState(initial_knowledge, initial_world),
                               SimulationResult, probabilistic, draws)}} : TRUE

(***************************************************************************)
(* DayGraph.get_valid_choices, DayGraph.find_paths                         *)
(***************************************************************************)

\* get_valid_choices without the check of the target's preconditions
get_valid_choices_noenter(G, current_node, knowledge, world_state) ==
    SelectSeq(get_transitions_from(G, current_node),
              LAMBDA trans : can_traverse(trans, knowledge, world_state))

get_valid_choices(G, current_node, knowledge, world_state) ==
    SelectSeq(get_transitions_from(G, current_node),
              LAMBDA trans :
                  /\ can_traverse(trans, knowledge, world_state)
                  /\ has_node(G, trans.to_node)
                  /\ can_enter(get_node(G, trans.to_node), knowledge, world_state))

InSeq(x, q) == \E i \in 1..Len(q) : q[i] = x

\* expand without the check that the target is already on the path
expand_revisits(G, entry) ==
    LET kw == IF has_node(G, entry.current)
              THEN apply_effects(get_node(G, entry.current), entry.knowledge, entry.world)
              ELSE <<entry.knowledge, entry.world>>
        open == SelectSeq(get_transitions_from(G, entry.current),
                    LAMBDA trans :
                        /\ can_traverse(trans, kw[1], kw[2])
                        /\ has_node(G, trans.to_node)
                        /\ can_enter(get_node(G, trans.to_node), kw[1], kw[2]))
    IN [i \in 1..Len(open) |->
            [current |-> open[i].to_node, path |-> Append(entry.path, open[i].to_node),
             knowledge |-> kw[1], world |-> kw[2]]]

\* the queue entries one frontier entry adds: the effects of its node are
\* applied, then its transitions are explored in order
expand(G, entry) ==
    LET kw == IF has_node(G, entry.current)
              THEN apply_effects(get_node(G, entry.current), entry.knowledge, entry.world)
              ELSE <<entry.knowledge, entry.world>>
        open == SelectSeq(get_transitions_from(G, entry.current),
                    LAMBDA trans :
                        /\ ~InSeq(trans.to_node, entry.path)
                        /\ can_traverse(trans, kw[1], kw[2])
                        /\ has_node(G, trans.to_node)
                        /\ can_enter(get_node(G, trans.to_node), kw[1], kw[2]))
    IN [i \in 1..Len(open) |->
            [current |-> open[i].to_node, path |-> Append(entry.path, open[i].to_node),
             knowledge |-> kw[1], world |-> kw[2]]]

\* the while loop of find_paths
RECURSIVE bfs(_, _, _, _, _, _)
bfs(G, goal, max_paths, max_depth, queue, paths) ==
    IF queue = <<>> \/ Len(paths) >= max_paths THEN paths
    ELSE LET entry == Head(queue) IN
         IF Len(entry.path) > max_depth
         THEN bfs(G, goal, max_paths, max_depth, Tail(queue), paths)
         ELSE IF entry.current = goal
         THEN bfs(G, goal, max_paths, max_depth, Tail(queue), Append(paths, entry.path))
         ELSE bfs(G, goal, max_paths, max_depth, Tail(queue) \o expand(G, entry), paths)

\* find_paths without the check that start and goal are nodes
find_paths_unchecked(G, start, goal, knowledge, world_state, max_paths, max_depth) ==
    bfs(G, goal, max_paths, max_depth,
        <<[current |-> start, path |-> <<start>>,
           knowledge |-> knowledge, world |-> world_state]>>, <<>>)

find_paths(G, start, goal, knowledge, world_state, max_paths, max_depth) ==
    IF ~has_node(G, start) \/ ~has_node(G, goal) THEN <<>>
    ELSE bfs(G, goal, max_paths, max_depth,
             <<[current |-> start, path |-> <<start>>,
                knowledge |-> knowledge, world |-> world_state]>>, <<>>)

default_max_paths == 10
default_max_depth == 20

is_reachable(G, from_node, to_node, knowledge, world_state) ==
    Len(find_paths(G, from_node, to_node, knowledge, world_state, 1, default_max_depth)) > 0

(***************************************************************************)
(***************************************************************************)
(* DayGraph.get_reachability_map                                           *)
(***************************************************************************)

\* the entries the for loop appends for a dequeued node: one for each
\* transition to a node not yet visited that can be traversed and entered
\* with the knowledge and facts after the node's effects
reach_queued(G, current, visited, kw) ==
    LET open == SelectSeq(get_transitions_from(G, current),
                    LAMBDA trans :
                        /\ trans.to_node \notin visited
                        /\ can_traverse(trans, kw[1], kw[2])
                        /\ has_node(G, trans.to_node)
                        /\ can_enter(get_node(G, trans.to_node), kw[1], kw[2]))
    IN [i \in 1..Len(open) |->
            [current |-> open[i].to_node, knowledge |-> kw[1], world |-> kw[2]]]

\* the while loop of get_reachability_map; reachable and visited are the
\* same set throughout
RECURSIVE reach(_, _, _)
reach(G, queue, visited) ==
    IF queue = <<>> THEN visited
    ELSE LET entry == Head(queue) IN
         IF entry.current \in visited THEN reach(G, Tail(queue), visited)
         ELSE reach(G,
                    Tail(queue) \o
                        reach_queued(G, entry.current, visited \cup {entry.current},
                            IF has_node(G, entry.current)
                            THEN apply_effects(get_node(G, entry.current),
                                               entry.knowledge, entry.world)
                            ELSE <<entry.knowledge, entry.world>>),
                    visited \cup {entry.current})

get_reachability_map(G, from_node, knowledge, world_state) ==
    IF ~has_node(G, from_node) THEN {}
    ELSE reach(G, <<[current |-> from_node, knowledge |-> knowledge,
                     world |-> world_state]>>, {})

(***************************************************************************)
(* The loops of find_paths and get_reachability_map, one iteration at a    *)
(* time.                                                                   *)
(***************************************************************************)

\* "while queue and len(paths) < max_paths"
find_paths_continues(queue, paths, max_paths) == queue # <<>> /\ Len(paths) < max_paths

\* one iteration of the while loop of find_paths: the queue and the paths
\* after it
find_paths_iterate(G, goal, max_depth, queue, paths) ==
    LET entry == Head(queue) IN
    IF Len(entry.path) > max_depth
    THEN [queue |-> Tail(queue), paths |-> paths]
    ELSE IF entry.current = goal
    THEN [queue |-> Tail(queue), paths |-> Append(paths, entry.path)]
    ELSE [queue |-> Tail(queue) \o expand(G, entry), paths |-> paths]

\* one iteration of the while loop of get_reachability_map
reach_iterate(G, queue, visited) ==
    LET entry == Head(queue) IN
    IF entry.current \in visited
    THEN [queue |-> Tail(queue), visited |-> visited]
    ELSE [queue |-> Tail(queue) \o
                      reach_queued(G, entry.current, visited \cup {entry.current},
                          IF has_node(G, entry.current)
                          THEN apply_effects(get_node(G, entry.current),
                                             entry.knowledge, entry.world)
                          ELSE <<entry.knowledge, entry.world>>),
          visited |-> visited \cup {entry.current}]

(* Operators.  An Optional value is a sequence of length 0 (None) or 1.    *)
(***************************************************************************)

NoDraws(decisions) == [i \in 1..Len(decisions) |-> 0]

add_tag(tags, tag) == IF InSeq(tag, tags) THEN tags ELSE Append(tags, tag)

Loop(parent_id, epoch, outcome_hash, knowledge_id, decision_trace) ==
    [parent_id |-> parent_id, epoch |-> epoch, key_choices |-> 0,
     outcome_hash |-> outcome_hash, knowledge_id |-> knowledge_id,
     tags |-> <<>>, decision_trace |-> decision_trace]

short_loop_threshold == 4

\* the tags with "short_loop" for a trace of short_loop_threshold nodes too
automatic_tags_upto(result, tags) ==
    LET tags1 == IF result.death_node # None THEN add_tag(tags, "death") ELSE tags
        tags2 == IF result.terminated_early THEN add_tag(tags1, "terminated_early") ELSE tags1
    IN IF Len(result.decision_trace) <= short_loop_threshold
       THEN add_tag(tags2, "short_loop") ELSE tags2

\* the tags _simulate_and_create_loop adds to the loop it made
automatic_tags(result, tags) ==
    LET tags1 == IF result.death_node # None THEN add_tag(tags, "death") ELSE tags
        tags2 == IF result.terminated_early THEN add_tag(tags1, "terminated_early") ELSE tags1
    IN IF Len(result.decision_trace) < short_loop_threshold
       THEN add_tag(tags2, "short_loop") ELSE tags2

\* what _simulate_and_create_loop returns for the result of the walk
loop_of_result(result, epoch, parent_id) ==
    IF ~result.success
    THEN [loop |-> <<>>, result |-> result]
    ELSE [loop |-> <<[Loop(parent_id, epoch, result.outcome_hash, result.knowledge_id,
                           result.decision_trace)
                      EXCEPT !.tags = automatic_tags(result, <<>>)]>>,
          result |-> result]

\* Operator._simulate_and_create_loop, without storage: [loop, result]
simulate_and_create_loop(G, decisions, epoch, initial_knowledge, parent_id) ==
    CHOOSE made \in
        {loop_of_result(result, epoch, parent_id) :
            result \in {simulate_loop(G, decisions, initial_knowledge, {}, FALSE,
                                      NoDraws(decisions))}} : TRUE

OperatorResult(success, loop, simulation, attempts, partial_success, message, decisions) ==
    [success |-> success, loop |-> loop, simulation |-> simulation,
     attempts |-> attempts, partial_success |-> partial_success,
     message |-> message, decisions |-> decisions]

Failure(message) == OperatorResult(FALSE, <<>>, <<>>, 1, FALSE, message, <<>>)

\* min(paths, key=len) and max(paths, key=len): the first of the shortest
\* (longest) paths
min_by_len(paths) ==
    paths[CHOOSE i \in 1..Len(paths) :
        /\ \A j \in 1..Len(paths) : Len(paths[i]) <= Len(paths[j])
        /\ \A j \in 1..(i - 1) : Len(paths[j]) > Len(paths[i])]

max_by_len(paths) ==
    paths[CHOOSE i \in 1..Len(paths) :
        /\ \A j \in 1..Len(paths) : Len(paths[i]) >= Len(paths[j])
        /\ \A j \in 1..(i - 1) : Len(paths[j]) < Len(paths[i])]

(******************************* CauseOperator ****************************)

RECURSIVE cause_explore_revelations(_, _, _, _, _)

\* the rest of the loop body once the walk to the revelation has given
\* new knowledge: paths is what find_paths gives to the target with it
cause_try_target(G, start, target_event, revelations, new_knowledge, paths) ==
    IF paths # <<>> THEN paths
    ELSE cause_explore_revelations(G, start, target_event, Tail(revelations), new_knowledge)

\* the loop body once a path to the revelation is found: sim is its walk
cause_walk_revelation(G, start, target_event, revelations, knowledge, sim_result) ==
    IF ~sim_result.success
    THEN cause_explore_revelations(G, start, target_event, Tail(revelations), knowledge)
    ELSE cause_try_target(G, start, target_event, revelations,
             sim_result.final_state.knowledge,
             find_paths(G, start, target_event, sim_result.final_state.knowledge, {},
                        1, default_max_depth))

\* the loop body: test_paths is what find_paths gives to the revelation
cause_try_revelation(G, start, target_event, revelations, knowledge, test_paths) ==
    IF test_paths = <<>>
    THEN cause_explore_revelations(G, start, target_event, Tail(revelations), knowledge)
    ELSE cause_walk_revelation(G, start, target_event, revelations, knowledge,
             simulate_loop(G, test_paths[1], knowledge, {}, FALSE, NoDraws(test_paths[1])))

\* the loop over the revelation nodes: the paths to the target found with
\* the knowledge a walk to a revelation gives
cause_explore_revelations(G, start, target_event, revelations, knowledge) ==
    IF revelations = <<>> THEN <<>>
    ELSE cause_try_revelation(G, start, target_event, revelations, knowledge,
             find_paths(G, start, Head(revelations).id, knowledge, {}, 1, default_max_depth))

\* cause_result reporting success whenever the target is on the path
cause_result_noloop(target_event, best_path, made) ==
    OperatorResult(InSeq(target_event, best_path),
                   made.loop, <<made.result>>, 1, FALSE,
                   IF made.loop # <<>> THEN <<"Target event reached">>
                   ELSE <<"Simulation failed">>,
                   best_path)

cause_result(target_event, best_path, made) ==
    OperatorResult(made.loop # <<>> /\ InSeq(target_event, best_path),
                   made.loop, <<made.result>>, 1, FALSE,
                   IF made.loop # <<>> THEN <<"Target event reached">>
                   ELSE <<"Simulation failed">>,
                   best_path)

\* the paths to the target: those found directly, or else those the
\* exploration of the revelations gives
cause_paths(G, start, target_event, knowledge, paths) ==
    IF paths # <<>> THEN paths
    ELSE cause_explore_revelations(G, start, target_event, get_revelation_nodes(G), knowledge)

\* the end of execute, from the paths found
cause_finish(G, target_event, epoch, initial_knowledge, parent_id, paths) ==
    IF paths = <<>> THEN Failure(<<"No path found", target_event>>)
    ELSE cause_result(target_event, min_by_len(paths),
             simulate_and_create_loop(G, min_by_len(paths), epoch, initial_knowledge,
                                      parent_id))

cause_execute(G, target_event, epoch, initial_knowledge, parent_id, max_attempts) ==
    IF ~has_start_node(G) THEN Failure(<<"Graph has no start node">>)
    ELSE IF ~has_node(G, target_event)
    THEN Failure(<<"Target event not found in graph", target_event>>)
    ELSE cause_finish(G, target_event, epoch, initial_knowledge, parent_id,
             cause_paths(G, get_start_node(G).id, target_event, initial_knowledge,
                 find_paths(G, get_start_node(G).id, target_event, initial_knowledge, {},
                            max_attempts, default_max_depth)))

(******************************* AvoidOperator ****************************)

\* the nodes Avoid takes for terminal: death nodes and nodes with no
\* outgoing transition
terminal_nodes(G) ==
    {G.nodes[i].id : i \in {j \in 1..Len(G.nodes) :
        \/ is_death(G.nodes[j])
        \/ get_transitions_from(G, G.nodes[j].id) = <<>>}}

\* the test taken for every path with the target in it being avoided
avoided_always(target_event, decisions) == TRUE

\* "target_event not in path": the test of the paths found, of the random
\* walks and of the best path
avoided(target_event, decisions) == ~InSeq(target_event, decisions)

\* the paths one terminal contributes to safe_paths
safe_paths_to(G, start, terminal, target_event, knowledge, max_attempts) ==
    IF terminal = target_event THEN <<>>
    ELSE SelectSeq(
            find_paths(G, start, terminal, knowledge, {},
                       IF max_attempts \div 2 # 0 THEN max_attempts \div 2 ELSE 1,
                       default_max_depth),
            LAMBDA path : avoided(target_event, path))

\* terminals is the order in which the set terminal_nodes is iterated
RECURSIVE collect_safe_paths(_, _, _, _, _, _)
collect_safe_paths(G, start, terminals, target_event, knowledge, max_attempts) ==
    IF terminals = <<>> THEN <<>>
    ELSE safe_paths_to(G, start, Head(terminals), target_event, knowledge, max_attempts)
         \o collect_safe_paths(G, start, Tail(terminals), target_event, knowledge,
                               max_attempts)

\* _random_walk_avoiding with steps_left of its max_steps left: every decision list the walk can produce from the
\* state it is in, random.choice picking any of the safe transitions
RECURSIVE random_walks_avoiding(_, _, _, _, _)
random_walks_avoiding(G, avoid, decisions, state, steps_left) ==
    IF steps_left = 0 \/ state.is_dead THEN {decisions}
    ELSE
    LET valid == get_valid_choices(G, state.current_node, state.knowledge, state.world_facts)
        filtered == SelectSeq(valid, LAMBDA t : t.to_node # avoid)
        safe == IF filtered = <<>> THEN valid ELSE filtered
    IN
    IF safe = <<>> THEN {decisions}
    ELSE UNION {random_walks_avoiding(G, avoid, Append(decisions, safe[i].to_node),
                    visit_node(state, get_node(G, safe[i].to_node)), steps_left - 1)
                : i \in 1..Len(safe)}

random_walk_avoiding(G, start, avoid, knowledge, max_steps) ==
    random_walks_avoiding(G, avoid, <<start>>,
        visit_node(WorldState(knowledge, {}), get_node(G, start)), max_steps)

\* the fallback loop: the walks that avoided the target, in the order made
keep_walks(walks, target_event) ==
    SelectSeq(walks, LAMBDA decisions : avoided(target_event, decisions))

avoid_result(target_event, safe_paths, best_path, made) ==
    LET is_avoided == avoided(target_event, best_path) IN
    OperatorResult(made.loop # <<>> /\ is_avoided,
                   made.loop, <<made.result>>, Len(safe_paths), FALSE,
                   IF is_avoided THEN <<"Target avoided">> ELSE <<"Could not avoid target">>,
                   best_path)

\* safe_paths after the fallback: the walks are made only if no path was found
avoid_safe_paths(safe_paths, walks, target_event) ==
    IF safe_paths # <<>> THEN safe_paths ELSE keep_walks(walks, target_event)

\* the end of execute, from the safe paths
avoid_finish(G, target_event, epoch, initial_knowledge, parent_id, safe_paths) ==
    IF safe_paths = <<>> THEN Failure(<<"Cannot avoid - it may be unavoidable", target_event>>)
    ELSE avoid_result(target_event, safe_paths, max_by_len(safe_paths),
             simulate_and_create_loop(G, max_by_len(safe_paths), epoch, initial_knowledge,
                                      parent_id))

\* terminals: the iteration order of the set of terminal nodes; walks: the
\* max_attempts random walks the fallback makes if it runs
avoid_execute(G, target_event, epoch, initial_knowledge, parent_id, max_attempts, terminals, walks) ==
    IF ~has_start_node(G) THEN Failure(<<"Graph has no start node">>)
    ELSE avoid_finish(G, target_event, epoch, initial_knowledge, parent_id,
             avoid_safe_paths(
                 collect_safe_paths(G, get_start_node(G).id, terminals, target_event,
                                    initial_knowledge, max_attempts),
                 walks, target_event))

\* whether the fallback runs
avoid_falls_back(G, target_event, initial_knowledge, max_attempts, terminals) ==
    /\ has_start_node(G)
    /\ collect_safe_paths(G, get_start_node(G).id, terminals, target_event,
                          initial_knowledge, max_attempts) = <<>>

(****************************** TriggerOperator ***************************)

\* the inner loop: the nodes of a segment are appended and the knowledge
\* their effects give (from empty facts) is added
RECURSIVE trigger_append(_, _, _, _)
trigger_append(G, segment, full_path, knowledge) ==
    IF segment = <<>> THEN [full_path |-> full_path, knowledge |-> knowledge]
    ELSE LET node_id == Head(segment)
             k == IF has_node(G, node_id)
                  THEN apply_effects(get_node(G, node_id), knowledge, {})[1]
                  ELSE {}
         IN trigger_append(G, Tail(segment), Append(full_path, node_id), knowledge \cup k)

\* trigger_stop reporting a partial success whenever it stops
trigger_stop_always_partial(checkpoint, current, full_path) ==
    OperatorResult(FALSE, <<>>, <<>>, 1, TRUE,
                   <<"Cannot reach", checkpoint, current>>, full_path)

\* the result when a checkpoint cannot be reached
trigger_stop(checkpoint, current, full_path) ==
    OperatorResult(FALSE, <<>>, <<>>, 1, Len(full_path) > 1,
                   <<"Cannot reach", checkpoint, current>>, full_path)

RECURSIVE trigger_stitch(_, _, _, _, _, _)

\* the loop body after the segment to checkpoint i is appended
trigger_continue(G, sequence, i, added) ==
    trigger_stitch(G, sequence, i + 1, added.knowledge, added.full_path, sequence[i])

\* the loop body for a checkpoint that is not the current node: paths is
\* what find_paths gives from the current node to it
trigger_segment(G, sequence, i, knowledge, full_path, current, paths) ==
    IF paths = <<>>
    THEN [stopped |-> TRUE, result |-> trigger_stop(sequence[i], current, full_path)]
    ELSE trigger_continue(G, sequence, i,
             trigger_append(G, Tail(paths[1]), full_path, knowledge))

\* the loop over the checkpoints from index i on: the result it returns from
\* inside the loop, or the path it built
trigger_stitch(G, sequence, i, knowledge, full_path, current) ==
    IF i > Len(sequence) THEN [stopped |-> FALSE, full_path |-> full_path]
    ELSE IF current = sequence[i]
    THEN trigger_stitch(G, sequence, i + 1, knowledge,
                        IF ~InSeq(sequence[i], full_path) THEN Append(full_path, sequence[i])
                        ELSE full_path,
                        current)
    ELSE trigger_segment(G, sequence, i, knowledge, full_path, current,
             find_paths(G, current, sequence[i], knowledge, {}, 1, default_max_depth))

\* the calls of find_paths the loop over the checkpoints makes from index i
\* on, in order: their arguments and the path stitched before the call
RECURSIVE trigger_find_paths_calls(_, _, _, _, _, _)
trigger_find_paths_calls(G, sequence, i, knowledge, full_path, current) ==
    IF i > Len(sequence) THEN <<>>
    ELSE IF current = sequence[i]
    THEN trigger_find_paths_calls(G, sequence, i + 1, knowledge,
             IF ~InSeq(sequence[i], full_path) THEN Append(full_path, sequence[i])
             ELSE full_path,
             current)
    ELSE <<[start |-> current, goal |-> sequence[i], knowledge |-> knowledge,
            world_state |-> {}, full_path |-> full_path]>>
         \o (IF find_paths(G, current, sequence[i], knowledge, {}, 1, default_max_depth) = <<>>
             THEN <<>>
             ELSE trigger_find_paths_calls(G, sequence, i + 1,
                      trigger_append(G,
                          Tail(find_paths(G, current, sequence[i], knowledge, {}, 1,
                                          default_max_depth)[1]),
                          full_path, knowledge).knowledge,
                      trigger_append(G,
                          Tail(find_paths(G, current, sequence[i], knowledge, {}, 1,
                                          default_max_depth)[1]),
                          full_path, knowledge).full_path,
                      sequence[i]))

\* trigger_result reporting success whenever every checkpoint is on the path
trigger_result_noloop(sequence, full_path, made) ==
    LET all_hit == \A i \in 1..Len(sequence) : InSeq(sequence[i], full_path) IN
    OperatorResult(all_hit,
                   made.loop, <<made.result>>, 1, FALSE,
                   IF all_hit THEN <<"Sequence triggered">> ELSE <<"Partial sequence">>,
                   full_path)

trigger_result(sequence, full_path, made) ==
    LET all_hit == \A i \in 1..Len(sequence) : InSeq(sequence[i], full_path) IN
    OperatorResult(made.loop # <<>> /\ all_hit,
                   made.loop, <<made.result>>, 1, FALSE,
                   IF all_hit THEN <<"Sequence triggered">> ELSE <<"Partial sequence">>,
                   full_path)

\* the end of execute, from what the loop over the checkpoints gave
trigger_finish(G, sequence, epoch, initial_knowledge, parent_id, stitched) ==
    IF stitched.stopped THEN stitched.result
    ELSE trigger_result(sequence, stitched.full_path,
             simulate_and_create_loop(G, stitched.full_path, epoch,
                                      initial_knowledge, parent_id))

trigger_execute(G, sequence, epoch, initial_knowledge, parent_id) ==
    IF sequence = <<>> THEN Failure(<<"Empty sequence provided">>)
    ELSE IF ~has_start_node(G) THEN Failure(<<"Graph has no start node">>)
    ELSE IF \E i \in 1..Len(sequence) : ~has_node(G, sequence[i])
    THEN Failure(<<"Sequence node not found",
                   sequence[CHOOSE i \in 1..Len(sequence) :
                       /\ ~has_node(G, sequence[i])
                       /\ \A j \in 1..(i - 1) : has_node(G, sequence[j])]>>)
    ELSE trigger_finish(G, sequence, epoch, initial_knowledge, parent_id,
             trigger_stitch(G, sequence, 1, initial_knowledge,
                 IF sequence[1] # get_start_node(G).id THEN <<get_start_node(G).id>>
                 ELSE <<>>,
                 get_start_node(G).id))

(********************************* LoopStorage ****************************)

\* An operator's storage is None or a LoopStorage; the loops table is the
\* sequence of the loops stored, and a loop's id is its place in it.
NoStorage == [attached |-> FALSE, loops |-> <<>>]

LoopStorage(loops) == [attached |-> TRUE, loops |-> loops]

get_loop(store, loop_id) ==
    IF loop_id \in 1..Len(store.loops) THEN <<store.loops[loop_id]>> ELSE <<>>

create_loop(store, loop) == [store EXCEPT !.loops = Append(@, loop)]

RECURSIVE create_loops(_, _)
create_loops(store, loops) ==
    IF loops = <<>> THEN store
    ELSE create_loops(create_loop(store, Head(loops)), Tail(loops))

\* "if save and self.storage: self.storage.create_loop(loop)" for the loops
\* an execute call made, in the order it made them
\* persist whatever save is
persist_unasked(store, save, created) ==
    IF store.attached THEN create_loops(store, created) ELSE store

persist(store, save, created) ==
    IF save /\ store.attached THEN create_loops(store, created) ELSE store

\* loop.add_tag(tag) on an Optional loop that is not None
tagged(loop, tag) == <<[loop[1] EXCEPT !.tags = add_tag(@, tag)]>>

\* what an execute call gives: its OperatorResult and the loops its calls of
\* _simulate_and_create_loop made
Outcome(result, created) == [result |-> result, created |-> created]

(******************************* ReliveOperator ***************************)

RECURSIVE follow_rest(_, _, _, _, _)

\* {t.to_node for t in valid}, valid the choices from current with no facts
valid_targets(G, current, knowledge) ==
    LET valid == get_valid_choices(G, current, knowledge, {}) IN
    {valid[j].to_node : j \in 1..Len(valid)}

\* the loop body when the original choice is valid
follow_step(G, original_trace, i, decisions, knowledge) ==
    follow_rest(G, original_trace, i + 1, Append(decisions, original_trace[i]),
        knowledge \cup apply_effects(get_node(G, original_trace[i]), knowledge, {})[1])

\* the loop of _follow_as_much_as_possible from index i of the trace
follow_rest(G, original_trace, i, decisions, knowledge) ==
    IF i > Len(original_trace) THEN decisions
    ELSE IF original_trace[i] \in valid_targets(G, decisions[Len(decisions)], knowledge)
    THEN follow_step(G, original_trace, i, decisions, knowledge)
    ELSE decisions

follow_as_much_as_possible(G, original_trace, initial_knowledge) ==
    IF original_trace = <<>> THEN <<>>
    ELSE follow_rest(G, original_trace, 2, <<original_trace[1]>>,
             IF has_node(G, original_trace[1])
             THEN initial_knowledge
                  \cup apply_effects(get_node(G, original_trace[1]), initial_knowledge, {})[1]
             ELSE initial_knowledge)

\* the number of places where the reference and the walked trace differ
divergence(reference_trace, decision_trace) ==
    Cardinality({i \in 1..Len(reference_trace) :
        i <= Len(decision_trace) /\ reference_trace[i] # decision_trace[i]})

\* relive_exact giving the loop without the tag
relive_exact_untagged(decisions, made) ==
    Outcome(OperatorResult(TRUE, made.loop, <<made.result>>, 1, FALSE,
                           <<"Relived loop", divergence(decisions, made.result.decision_trace)>>,
                           decisions),
            made.loop)

\* the result when the walk of the exact trace made a loop
relive_exact(decisions, made) ==
    Outcome(OperatorResult(TRUE, tagged(made.loop, "relive"), <<made.result>>, 1, FALSE,
                           <<"Relived loop", divergence(decisions, made.result.decision_trace)>>,
                           decisions),
            made.loop)

\* the result of the walk of the part of the trace that can be followed
relive_partial(reference_trace, partial_decisions, made) ==
    Outcome(OperatorResult(made.loop # <<>>,
                           IF made.loop # <<>> THEN tagged(made.loop, "relive_partial")
                           ELSE <<>>,
                           <<made.result>>, 1,
                           Len(partial_decisions) < Len(reference_trace),
                           <<"Partial relive - original path no longer valid">>,
                           partial_decisions),
            made.loop)

relive_try_partial(G, reference_trace, epoch, initial_knowledge, parent_id, partial_decisions) ==
    relive_partial(reference_trace, partial_decisions,
        simulate_and_create_loop(G, partial_decisions, epoch, initial_knowledge, parent_id))

\* execute after the walk of the exact trace
relive_after_exact(G, reference_trace, epoch, initial_knowledge, parent_id, made) ==
    IF made.loop # <<>> THEN relive_exact(reference_trace, made)
    ELSE relive_try_partial(G, reference_trace, epoch, initial_knowledge, parent_id,
             follow_as_much_as_possible(G, reference_trace, initial_knowledge))

\* execute after the lookup of the reference
relive_reference(G, reference, reference_id, epoch, initial_knowledge, parent_id) ==
    IF reference = <<>>
    THEN Outcome(Failure(<<"Reference loop not found", reference_id>>), <<>>)
    ELSE IF reference[1].decision_trace = <<>>
    THEN Outcome(Failure(<<"Reference loop has no decision trace">>), <<>>)
    ELSE relive_after_exact(G, reference[1].decision_trace, epoch, initial_knowledge,
             parent_id,
             simulate_and_create_loop(G, reference[1].decision_trace, epoch,
                                      initial_knowledge, parent_id))

\* execute going to the lookup whatever self.storage is
relive_execute_unchecked(G, store, reference_id, epoch, initial_knowledge, parent_id) ==
    relive_reference(G, get_loop(store, reference_id), reference_id, epoch,
                     initial_knowledge, parent_id)

relive_execute(G, store, reference_id, epoch, initial_knowledge, parent_id) ==
    IF ~store.attached
    THEN Outcome(Failure(<<"No storage available to retrieve reference loop">>), <<>>)
    ELSE relive_reference(G, get_loop(store, reference_id), reference_id, epoch,
                          initial_knowledge, parent_id)

(**************************** SlightlyChangeOperator ***********************)

\* the loop of _simulate_to_position: the nodes of the trace are visited
RECURSIVE visit_all(_, _, _)
visit_all(G, trace, state) ==
    IF trace = <<>> THEN state
    ELSE visit_all(G, Tail(trace),
             IF has_node(G, Head(trace)) THEN visit_node(state, get_node(G, Head(trace)))
             ELSE state)

\* _simulate_to_position for a trace that is not empty
simulate_to_position(G, trace, initial_knowledge) ==
    visit_all(G, trace, WorldState(initial_knowledge, {}))

\* the loop of _complete_path and of _random_exploration with steps_left
\* of its max_steps left: every decision list the random choices can give
RECURSIVE random_walks(_, _, _, _)
random_walks(G, decisions, state, steps_left) ==
    IF steps_left = 0 \/ state.is_dead THEN {decisions}
    ELSE
    LET valid == get_valid_choices(G, state.current_node, state.knowledge, state.world_facts)
    IN
    IF valid = <<>> THEN {decisions}
    ELSE UNION {random_walks(G, Append(decisions, valid[i].to_node),
                    visit_node(state, get_node(G, valid[i].to_node)), steps_left - 1)
                : i \in 1..Len(valid)}

\* _complete_path: the lists it can return; it returns None exactly when
\* the list is not longer than partial
complete_path(G, partial, state, max_steps) == random_walks(G, partial, state, max_steps)

\* the alternatives at 1-based place pos: the targets of the valid choices
\* from the node before it that are not the reference's node at pos
alternatives(G, trace, new_trace, pos, state) ==
    LET valid == get_valid_choices(G, new_trace[pos - 1], state.knowledge, state.world_facts)
    IN {valid[j].to_node : j \in {k \in 1..Len(valid) : valid[k].to_node # trace[pos]}}

RECURSIVE change_positions(_, _, _, _, _, _)

\* the loop body once the node at pos is replaced: completed are the lists
\* _complete_path can return
change_completed(G, trace, changed, positions, knowledge, max_steps, completed) ==
    IF \E c \in completed : Len(c) > Len(SubSeq(changed, 1, Head(positions)))
    THEN completed
    ELSE change_positions(G, trace, changed, Tail(positions), knowledge, max_steps)

\* the loop body at the place Head(positions), state the state there
change_at(G, trace, new_trace, positions, knowledge, max_steps, state) ==
    IF alternatives(G, trace, new_trace, Head(positions), state) = {}
    THEN change_positions(G, trace, new_trace, Tail(positions), knowledge, max_steps)
    ELSE UNION {change_completed(G, trace, [new_trace EXCEPT ![Head(positions)] = alt],
                    positions, knowledge, max_steps,
                    complete_path(G, SubSeq([new_trace EXCEPT ![Head(positions)] = alt],
                                            1, Head(positions)),
                                  state, max_steps))
                : alt \in alternatives(G, trace, new_trace, Head(positions), state)}

\* the loop over the sorted change positions: every new_trace it can end with
change_positions(G, trace, new_trace, positions, knowledge, max_steps) ==
    IF positions = <<>> THEN {new_trace}
    ELSE change_at(G, trace, new_trace, positions, knowledge, max_steps,
             simulate_to_position(G, SubSeq(new_trace, 1, Head(positions) - 1), knowledge))

\* sorted(change_positions) for the set of places drawn
sorted_positions(P) == CHOOSE q \in [1..Cardinality(P) -> P] :
    \A i, j \in 1..Cardinality(P) : i < j => q[i] < q[j]

\* the new traces one attempt can make: random.sample draws `changes` of the
\* places after the first
attempt_traces(G, trace, changes, knowledge, max_steps) ==
    UNION {change_positions(G, trace, trace, sorted_positions(P), knowledge, max_steps)
           : P \in {Q \in SUBSET (2..Len(trace)) : Cardinality(Q) = changes}}

\* "new_trace != trace" taken to hold of every new trace
is_changed_always(new_trace, trace) == TRUE

\* "new_trace != trace"
is_changed(new_trace, trace) == new_trace # trace

Min(a, b) == IF a <= b THEN a ELSE b

RECURSIVE slightly_attempts(_, _, _, _, _, _, _, _, _)

\* an attempt after the walk of its new trace
slightly_made(G, trace, new_traces, attempt, changes, max_attempts, epoch, initial_knowledge, parent_id, made) ==
    IF made.loop # <<>>
    THEN Outcome(OperatorResult(TRUE, tagged(made.loop, "slightly_changed"),
                                <<made.result>>, attempt, FALSE,
                                <<"Changed decisions", changes>>, new_traces[attempt]),
                 made.loop)
    ELSE slightly_attempts(G, trace, new_traces, attempt + 1, changes, max_attempts,
                           epoch, initial_knowledge, parent_id)

\* the loop over the attempts, new_traces[i] the new trace attempt i made
slightly_attempts(G, trace, new_traces, attempt, changes, max_attempts, epoch, initial_knowledge, parent_id) ==
    IF attempt > max_attempts
    THEN Outcome(OperatorResult(FALSE, <<>>, <<>>, max_attempts, FALSE,
                                <<"Could not find valid variation">>, <<>>),
                 <<>>)
    ELSE IF is_changed(new_traces[attempt], trace)
    THEN slightly_made(G, trace, new_traces, attempt, changes, max_attempts, epoch,
             initial_knowledge, parent_id,
             simulate_and_create_loop(G, new_traces[attempt], epoch, initial_knowledge,
                                      parent_id))
    ELSE slightly_attempts(G, trace, new_traces, attempt + 1, changes, max_attempts,
                           epoch, initial_knowledge, parent_id)

\* whether execute gets to its attempts
slightly_attempts_made(store, reference_id) ==
    /\ store.attached
    /\ get_loop(store, reference_id) # <<>>
    /\ Len(get_loop(store, reference_id)[1].decision_trace) >= 2

\* new_traces: the new trace each of the max_attempts attempts makes
slightly_change_execute(G, store, reference_id, changes, epoch, initial_knowledge, parent_id, max_attempts, new_traces) ==
    IF ~store.attached
    THEN Outcome(Failure(<<"No storage available to retrieve reference loop">>), <<>>)
    ELSE IF get_loop(store, reference_id) = <<>>
    THEN Outcome(Failure(<<"Reference loop not found", reference_id>>), <<>>)
    ELSE IF Len(get_loop(store, reference_id)[1].decision_trace) < 2
    THEN Outcome(Failure(<<"Reference loop too short to modify">>), <<>>)
    ELSE slightly_attempts(G, get_loop(store, reference_id)[1].decision_trace, new_traces,
             1, Min(changes, Len(get_loop(store, reference_id)[1].decision_trace) - 1),
             max_attempts, epoch, initial_knowledge, parent_id)

\* the for loop of a random walk goes on without a limit of steps
walk_continues_unbounded(state, steps, max_steps, valid) ==
    ~state.is_dead /\ valid # <<>>

\* the for loop of _random_exploration goes on: "for _ in range(max_steps)",
\* "if state.is_dead: break", "if not valid: break"
walk_continues(state, steps, max_steps, valid) ==
    steps < max_steps /\ ~state.is_dead /\ valid # <<>>

(**************************** GreatlyChangeOperator ************************)

\* _random_exploration: the decision lists it can return
random_exploration(G, initial_knowledge, max_steps) ==
    IF ~has_start_node(G) THEN {<<>>}
    ELSE random_walks(G, <<get_start_node(G).id>>,
             visit_node(WorldState(initial_knowledge, {}), get_start_node(G)), max_steps)

set(q) == {q[i] : i \in 1..Len(q)}

\* _compute_trace_distance: the size of the symmetric difference
compute_trace_distance(trace1, trace2) ==
    Cardinality((set(trace1) \ set(trace2)) \cup (set(trace2) \ set(trace1)))

\* best_loop, best_sim, best_distance and best_decisions before the loop
NoBest == [loop |-> <<>>, sim |-> <<>>, distance |-> 0, decisions |-> <<>>]

RECURSIVE greatly_attempts(_, _, _, _, _, _, _, _, _, _)

\* an attempt after the walk of its decisions: the best candidate is
\* replaced by a more distant one, and the loop ends at min_distance
greatly_made(G, trace, walks, attempt, best, min_distance, max_attempts, epoch, initial_knowledge, parent_id, made) ==
    IF made.loop = <<>>
    THEN greatly_attempts(G, trace, walks, attempt + 1, best, min_distance, max_attempts,
                          epoch, initial_knowledge, parent_id)
    ELSE IF compute_trace_distance(trace, walks[attempt]) >= min_distance
    THEN [best |-> IF compute_trace_distance(trace, walks[attempt]) > best.distance
                   THEN [loop |-> made.loop, sim |-> <<made.result>>,
                         distance |-> compute_trace_distance(trace, walks[attempt]),
                         decisions |-> walks[attempt]]
                   ELSE best,
          attempts |-> attempt]
    ELSE greatly_attempts(G, trace, walks, attempt + 1,
             IF compute_trace_distance(trace, walks[attempt]) > best.distance
             THEN [loop |-> made.loop, sim |-> <<made.result>>,
                   distance |-> compute_trace_distance(trace, walks[attempt]),
                   decisions |-> walks[attempt]]
             ELSE best,
             min_distance, max_attempts, epoch, initial_knowledge, parent_id)

\* the loop over the attempts, walks[i] the random walk of attempt i: the
\* best candidate and the number of attempts made
greatly_attempts(G, trace, walks, attempt, best, min_distance, max_attempts, epoch, initial_knowledge, parent_id) ==
    IF attempt > max_attempts THEN [best |-> best, attempts |-> max_attempts]
    ELSE IF walks[attempt] = <<>>
    THEN greatly_attempts(G, trace, walks, attempt + 1, best, min_distance, max_attempts,
                          epoch, initial_knowledge, parent_id)
    ELSE greatly_made(G, trace, walks, attempt, best, min_distance, max_attempts, epoch,
             initial_knowledge, parent_id,
             simulate_and_create_loop(G, walks[attempt], epoch, initial_knowledge,
                                      parent_id))

\* greatly_result reporting success for every candidate
greatly_result_always(tried, min_distance, max_attempts) ==
    IF tried.best.loop # <<>>
    THEN Outcome(OperatorResult(TRUE,
                                tagged(tried.best.loop, "greatly_changed"), tried.best.sim,
                                Min(tried.attempts, max_attempts), FALSE,
                                <<"Distance from reference", tried.best.distance>>,
                                tried.best.decisions),
                 tagged(tried.best.loop, "greatly_changed"))
    ELSE Outcome(OperatorResult(FALSE, <<>>, <<>>, max_attempts, FALSE,
                                <<"Could not generate valid divergent loop">>, <<>>),
                 <<>>)

\* the end of execute, from what the loop over the attempts gave
greatly_result(tried, min_distance, max_attempts) ==
    IF tried.best.loop # <<>>
    THEN Outcome(OperatorResult(tried.best.distance >= min_distance,
                                tagged(tried.best.loop, "greatly_changed"), tried.best.sim,
                                Min(tried.attempts, max_attempts), FALSE,
                                <<"Distance from reference", tried.best.distance>>,
                                tried.best.decisions),
                 tagged(tried.best.loop, "greatly_changed"))
    ELSE Outcome(OperatorResult(FALSE, <<>>, <<>>, max_attempts, FALSE,
                                <<"Could not generate valid divergent loop">>, <<>>),
                 <<>>)

\* whether execute gets to its attempts
greatly_attempts_made(store, reference_id) ==
    store.attached /\ get_loop(store, reference_id) # <<>>

\* walks: the random walk each of the max_attempts attempts makes
greatly_change_execute(G, store, reference_id, epoch, initial_knowledge, parent_id, min_distance, max_attempts, walks) ==
    IF ~store.attached
    THEN Outcome(Failure(<<"No storage available to retrieve reference loop">>), <<>>)
    ELSE IF get_loop(store, reference_id) = <<>>
    THEN Outcome(Failure(<<"Reference loop not found", reference_id>>), <<>>)
    ELSE greatly_result(
             greatly_attempts(G, get_loop(store, reference_id)[1].decision_trace, walks, 1,
                              NoBest, min_distance, max_attempts, epoch, initial_knowledge,
                              parent_id),
             min_distance, max_attempts)

(***************************************************************************)
(* The graphs the calls are made on: the six-node scenario of the tests    *)
(* without choice_b, with every combination of the optional transitions.   *)
(***************************************************************************)

ScenarioNodes ==
    <<EventNode("start", 0, "soft", "home", <<>>, <<>>),
      EventNode("a", 1, "critical", "street", <<>>, << <<"SET", "y">> >>),
      EventNode("r", 2, "revelation", "lab", <<>>, << <<"LEARN", "x">> >>),
      EventNode("t", 3, "soft", "lab",
                << <<"KNOW", "x">>, <<"AT", "lab">> >>, << <<"UNSET", "y">> >>),
      EventNode("d", 3, "death", "street", <<>>, << <<"BOMB_EXPLODED">> >>)>>

\* opt = "" marks a transition every graph has
CandidateTransitions ==
    <<[opt |-> "",   t |-> Transition("start", "a", <<>>, 100)],
      [opt |-> "sr", t |-> Transition("start", "r", << <<"NOT", "KNOW", "x">> >>, 50)],
      [opt |-> "st", t |-> Transition("start", "t", <<>>, 100)],
      [opt |-> "",   t |-> Transition("a", "r", <<>>, 100)],
      [opt |-> "",   t |-> Transition("a", "d", <<>>, 0)],
      [opt |-> "rt1", t |-> Transition("r", "t", << <<"NOT", "KNOW", "x">> >>, 100)],
      [opt |-> "rt2", t |-> Transition("r", "t", << <<"KNOW", "x">> >>, 50)],
      [opt |-> "",   t |-> Transition("r", "d", << <<"NOT", "y">> >>, 100)],
      [opt |-> "dt", t |-> Transition("d", "t", <<>>, 100)],
      [opt |-> "cyc", t |-> Transition("t", "start", <<>>, 100)],
      [opt |-> "cyc", t |-> Transition("a", "a", << <<"y">> >>, 100)]>>

Options == {"sr", "st", "rt1", "rt2", "dt", "cyc"}

RECURSIVE pick_transitions(_, _)
pick_transitions(cands, opts) ==
    IF cands = <<>> THEN <<>>
    ELSE IF Head(cands).opt = "" \/ Head(cands).opt \in opts
    THEN <<Head(cands).t>> \o pick_transitions(Tail(cands), opts)
    ELSE pick_transitions(Tail(cands), opts)

ScenarioGraph(opts) ==
    from_dict(ScenarioNodes, pick_transitions(CandidateTransitions, opts))

Graphs == {ScenarioGraph(opts) : opts \in SUBSET Options}

\* simulate_loop reads one pair of nodes at a time: its graphs have every
\* optional transition but the parallel r -> t pair and the cycle, which vary
SimGraphs ==
    {ScenarioGraph({"sr", "st", "dt"} \cup opts) : opts \in SUBSET {"rt1", "rt2", "cyc"}}

\* the scenario without its node at time_slot 0: get_start_node() is None, and
\* the transitions from "start" are refused by add_transition
NoStartGraphs ==
    {from_dict(Tail(ScenarioNodes), pick_transitions(CandidateTransitions, opts)) :
        opts \in SUBSET {"rt1", "dt"}}

NodeIds == {"start", "a", "r", "t", "d"}
Ids == NodeIds \cup {"ghost"}      \* "ghost" is the id of no node
KnowledgeSets == SUBSET {<<"x">>}
FactSets == SUBSET {<<"y">>}
Draws == {0, 50}

MaxDecisions == 3

RECURSIVE SeqsUpTo(_, _)
SeqsUpTo(S, n) ==
    IF n = 0 THEN {<<>>}
    ELSE LET shorter == SeqsUpTo(S, n - 1)
         IN shorter \cup {Append(q, e) : q \in {p \in shorter : Len(p) = n - 1}, e \in S}

DecisionLists == SeqsUpTo(Ids, MaxDecisions)

(***************************************************************************)
(* State and actions                                                       *)
(***************************************************************************)

NoSim ==
    [called |-> FALSE, decisions |-> <<>>, initial_knowledge |-> {},
     initial_world |-> {}, probabilistic |-> FALSE,
     result |-> simulate_loop(create_empty_graph, <<>>, {}, {}, FALSE, <<>>)]

NoChoices == [called |-> FALSE]
NoFound == [called |-> FALSE]
NoOp == [called |-> FALSE, op |-> "none"]

Idle ==
    /\ sim = NoSim
    /\ sim_prev = NoSim
    /\ choices = NoChoices
    /\ found = NoFound
    /\ opres = NoOp
    /\ objects = NoObjects

Init == graph \in Graphs /\ storage = NoStorage /\ Idle

\* The calls leave the graph as it is, so a behaviour makes one call on the
\* loaded graph (and may repeat it).  DrawLists(n) are the values the rolls of
\* steps 2..n can draw.
DrawLists(n) == [2..n -> Draws]

\* result = graph.simulate_loop(decisions, initial_knowledge, initial_world, probabilistic)
SimulateLoop ==
    /\ ~sim.called
    /\ \E decisions \in DecisionLists, K \in KnowledgeSets, W \in FactSets,
          probabilistic \in BOOLEAN :
        \E draws \in (IF probabilistic THEN DrawLists(Len(decisions))
                      ELSE {[i \in 2..Len(decisions) |-> 0]}) :
            sim' = [called |-> TRUE, decisions |-> decisions,
                    initial_knowledge |-> K, initial_world |-> W,
                    probabilistic |-> probabilistic,
                    result |-> simulate_loop(graph, decisions, K, W, probabilistic, draws)]
    /\ UNCHANGED <<graph, sim_prev, choices, found, opres, storage, objects>>

\* the same call once more: same graph, same arguments, fresh random draws
SimulateAgain ==
    /\ sim.called
    /\ ~sim_prev.called
    /\ \E draws \in DrawLists(Len(sim.decisions)) :
        /\ sim_prev' = sim
        /\ sim' = [sim EXCEPT !.result =
                      simulate_loop(graph, sim.decisions, sim.initial_knowledge,
                                    sim.initial_world, sim.probabilistic, draws)]
    /\ UNCHANGED <<graph, choices, found, opres, storage, objects>>

NextSim == SimulateLoop \/ SimulateAgain

InitSim == graph \in SimGraphs /\ storage = NoStorage /\ Idle

SpecSim == InitSim /\ [][NextSim]_vars

MaxPaths == 3
MaxDepth == 4

\* valid = graph.get_valid_choices(current_node, knowledge, world_state)
GetValidChoices ==
    /\ ~choices.called /\ ~found.called
    /\ \E node \in Ids, K \in KnowledgeSets, W \in FactSets :
        choices' = [called |-> TRUE, current_node |-> node, knowledge |-> K,
                    world_state |-> W,
                    result |-> get_valid_choices(graph, node, K, W)]
    /\ UNCHANGED <<graph, sim, sim_prev, found, opres, storage, objects>>

\* paths = graph.find_paths(start, goal, knowledge, world_state, max_paths, max_depth)
FindPaths ==
    /\ ~choices.called /\ ~found.called
    /\ \E start \in Ids, goal \in Ids, K \in KnowledgeSets, W \in FactSets,
          max_paths \in (1..MaxPaths) \cup {default_max_paths},
          max_depth \in (1..MaxDepth) \cup {default_max_depth} :
        found' = [called |-> TRUE, start |-> start, goal |-> goal, knowledge |-> K,
                  world_state |-> W, max_paths |-> max_paths, max_depth |-> max_depth,
                  result |-> find_paths(graph, start, goal, K, W, max_paths, max_depth)]
    /\ UNCHANGED <<graph, sim, sim_prev, choices, opres, storage, objects>>

NextQuery == GetValidChoices \/ FindPaths

SpecQuery == Init /\ [][NextQuery]_vars

MaxAttempts == 2
default_max_attempts == 10

\* the loop of the result is the one _simulate_and_create_loop made, stored
\* "if save and self.storage"
Persisted(result) ==
    /\ opres' = [stored |-> storage] @@ [result EXCEPT !.persist = @ /\ storage.attached]
    /\ storage' = persist(storage, result.persist, result.result.loop)

\* result = CauseOperator(graph, storage).execute(target_event, initial_knowledge=K,
\*                                       max_attempts=max_attempts, save=save)
CauseExecute ==
    /\ ~opres.called
    /\ \E target \in Ids, K \in KnowledgeSets, save \in BOOLEAN,
          max_attempts \in (1..MaxAttempts) \cup {default_max_attempts} :
        Persisted([called |-> TRUE, op |-> "cause", target |-> <<target>>,
                   initial_knowledge |-> K, max_attempts |-> max_attempts,
                   persist |-> save,
                   result |-> cause_execute(graph, target, "naive", K, None, max_attempts)])
    /\ UNCHANGED <<graph, sim, sim_prev, choices, found, objects>>

NextCause == CauseExecute

SpecCause == Init /\ [][NextCause]_vars

MaxSteps == 4
MaxSequence == 3

\* the orders in which a set can be iterated
Orders(S) == {q \in [1..Cardinality(S) -> S] : \A i, j \in 1..Cardinality(S) : q[i] = q[j] => i = j}

\* result = AvoidOperator(graph, storage).execute(target_event, initial_knowledge=K,
\*                                       max_attempts=max_attempts, save=save)
AvoidExecute ==
    /\ ~opres.called
    /\ \E target \in Ids, K \in KnowledgeSets, max_attempts \in 1..MaxAttempts,
          save \in BOOLEAN, terminals \in Orders(terminal_nodes(graph)) :
        \E walks \in (IF avoid_falls_back(graph, target, K, max_attempts, terminals)
                      THEN [1..max_attempts ->
                               random_walk_avoiding(graph, get_start_node(graph).id,
                                                    target, K, MaxSteps)]
                      ELSE {<<>>}) :
            Persisted([called |-> TRUE, op |-> "avoid", target |-> <<target>>,
                       initial_knowledge |-> K, max_attempts |-> max_attempts,
                       fallback |-> walks # <<>>, persist |-> save,
                       result |-> avoid_execute(graph, target, "naive", K, None,
                                                max_attempts, terminals, walks)])
    /\ UNCHANGED <<graph, sim, sim_prev, choices, found, objects>>

NextAvoid == AvoidExecute

SpecAvoid == Init /\ [][NextAvoid]_vars

\* result = TriggerOperator(graph, storage).execute(sequence, initial_knowledge=K,
\*                                                 save=save)
TriggerExecute ==
    /\ ~opres.called
    /\ \E sequence \in SeqsUpTo(Ids, MaxSequence), K \in KnowledgeSets, save \in BOOLEAN :
        Persisted([called |-> TRUE, op |-> "trigger", target |-> sequence,
                   initial_knowledge |-> K, max_attempts |-> 1, persist |-> save,
                   result |-> trigger_execute(graph, sequence, "naive", K, None)])
    /\ UNCHANGED <<graph, sim, sim_prev, choices, found, objects>>

NextTrigger == TriggerExecute

SpecTrigger == Init /\ [][NextTrigger]_vars

MaxTrace == 3
MaxLoops == 1

\* the decision traces of the loops in storage
ReferenceTraces == SeqsUpTo(NodeIds, MaxTrace)

\* a loop in storage with the given trace
ReferenceLoop(trace) ==
    Loop(None, "naive", compute_outcome_hash({}, {}, {}, "survived"),
         compute_knowledge_id({}, {}, {}), trace)

\* the storages an operator is constructed with: none, or one holding up to
\* MaxLoops loops
Storages ==
    {NoStorage} \cup
    {LoopStorage(loops) :
        loops \in UNION {[1..m -> {ReferenceLoop(t) : t \in ReferenceTraces}] :
                          m \in 0..MaxLoops}}

\* the loop ids a call can name: those in storage and one that is not
ReferenceIds == 1..(MaxLoops + 1)

InitStored == graph \in SimGraphs /\ storage \in Storages /\ Idle

\* the graphs the random walks are made on: those of SimGraphs without a cycle
WalkGraphs == {ScenarioGraph(opts \cup {"sr", "st", "dt"}) : opts \in SUBSET {"rt1", "rt2"}}

InitWalks == graph \in WalkGraphs /\ storage \in Storages /\ Idle

\* result = ReliveOperator(graph, storage).execute(reference_id,
\*                                                 initial_knowledge=K, save=save)
ReliveExecute ==
    /\ ~opres.called
    /\ \E reference_id \in ReferenceIds, K \in KnowledgeSets, save \in BOOLEAN :
        LET outcome == relive_execute(graph, storage, reference_id, "naive", K, None) IN
        /\ opres' = [called |-> TRUE, op |-> "relive", target |-> <<reference_id>>,
                     initial_knowledge |-> K, max_attempts |-> 1, save |-> save,
                     stored |-> storage, result |-> outcome.result]
        /\ storage' = persist(storage, save, outcome.created)
    /\ UNCHANGED <<graph, sim, sim_prev, choices, found, objects>>

NextRelive == ReliveExecute

SpecRelive == InitStored /\ [][NextRelive]_vars

MaxChanges == 2

\* result = SlightlyChangeOperator(graph, storage).execute(reference_id, changes,
\*              initial_knowledge=K, max_attempts=max_attempts, save=save)
SlightlyChangeExecute ==
    /\ ~opres.called
    /\ \E reference_id \in ReferenceIds, changes \in 1..MaxChanges, K \in KnowledgeSets,
          max_attempts \in 1..MaxAttempts, save \in BOOLEAN :
        \E new_traces \in (IF slightly_attempts_made(storage, reference_id)
                           THEN [1..max_attempts ->
                                   attempt_traces(graph,
                                       get_loop(storage, reference_id)[1].decision_trace,
                                       Min(changes,
                                           Len(get_loop(storage, reference_id)[1].decision_trace) - 1),
                                       K, MaxSteps)]
                           ELSE {<<>>}) :
            LET outcome == slightly_change_execute(graph, storage, reference_id, changes,
                               "naive", K, None, max_attempts, new_traces)
            IN
            /\ opres' = [called |-> TRUE, op |-> "slightly_change",
                         target |-> <<reference_id>>, initial_knowledge |-> K,
                         max_attempts |-> max_attempts, save |-> save, stored |-> storage,
                         changes |-> changes, result |-> outcome.result]
            /\ storage' = persist(storage, save, outcome.created)
    /\ UNCHANGED <<graph, sim, sim_prev, choices, found, objects>>

NextSlightlyChange == SlightlyChangeExecute

SpecSlightlyChange == InitWalks /\ [][NextSlightlyChange]_vars

MaxDistance == 3

\* result = GreatlyChangeOperator(graph, storage).execute(reference_id,
\*              initial_knowledge=K, min_distance=min_distance,
\*              max_attempts=max_attempts, save=save)
GreatlyChangeExecute ==
    /\ ~opres.called
    /\ \E reference_id \in ReferenceIds, K \in KnowledgeSets, min_distance \in 0..MaxDistance,
          max_attempts \in 1..MaxAttempts, save \in BOOLEAN :
        \E walks \in (IF greatly_attempts_made(storage, reference_id)
                      THEN [1..max_attempts -> random_exploration(graph, K, MaxSteps)]
                      ELSE {<<>>}) :
            LET outcome == greatly_change_execute(graph, storage, reference_id, "naive", K,
                               None, min_distance, max_attempts, walks)
            IN
            /\ opres' = [called |-> TRUE, op |-> "greatly_change",
                         target |-> <<reference_id>>, initial_knowledge |-> K,
                         max_attempts |-> max_attempts, save |-> save, stored |-> storage,
                         min_distance |-> min_distance, walks |-> walks,
                         result |-> outcome.result]
            /\ storage' = persist(storage, save, outcome.created)
    /\ UNCHANGED <<graph, sim, sim_prev, choices, found, objects>>

NextGreatlyChange == GreatlyChangeExecute

SpecGreatlyChange == InitWalks /\ [][NextGreatlyChange]_vars

\* The three operators that read a reference loop, constructed with or
\* without a storage; without one the graph is any of the graphs, with or
\* without a start node.
InitDetached ==
    /\ storage \in Storages
    /\ graph \in (IF storage.attached THEN WalkGraphs ELSE Graphs \cup NoStartGraphs)
    /\ Idle

NextDetached == ReliveExecute \/ SlightlyChangeExecute \/ GreatlyChangeExecute

SpecDetached == InitDetached /\ [][NextDetached]_vars

\* Cause, Avoid and Trigger on graphs with and without a start node, by
\* operators constructed with an empty storage or with none.
InitStructural ==
    /\ graph \in SimGraphs \cup NoStartGraphs
    /\ storage \in {NoStorage, LoopStorage(<<>>)}
    /\ Idle

NextStructural == CauseExecute \/ AvoidExecute \/ TriggerExecute

SpecStructural == InitStructural /\ [][NextStructural]_vars

\* A graph built and changed call by call: the nodes and transitions are
\* those of the scenario's first three nodes, and the transition list is
\* kept to MaxTransitions entries.
MaxTransitions == 3

EditNodes == SubSeq(ScenarioNodes, 1, 3)
EditIds == {EditNodes[i].id : i \in 1..Len(EditNodes)} \cup {"ghost"}
EditTransitions ==
    {CandidateTransitions[i].t : i \in
        {j \in 1..Len(CandidateTransitions) :
            /\ CandidateTransitions[j].t.from_node \in EditIds
            /\ CandidateTransitions[j].t.to_node \in EditIds}}

InitGraph == graph = create_empty_graph /\ storage = NoStorage /\ Idle

\* graph.add_node(node)
AddNode ==
    /\ \E i \in 1..Len(EditNodes) : graph' = add_node(graph, EditNodes[i])
    /\ UNCHANGED <<sim, sim_prev, choices, found, opres, storage, objects>>

\* graph.remove_node(node_id)
RemoveNode ==
    /\ \E node_id \in EditIds : graph' = remove_node(graph, node_id)
    /\ UNCHANGED <<sim, sim_prev, choices, found, opres, storage, objects>>

\* graph.add_transition(transition)
AddTransition ==
    /\ Len(graph.transitions) < MaxTransitions
    /\ \E transition \in EditTransitions : graph' = add_transition(graph, transition)
    /\ UNCHANGED <<sim, sim_prev, choices, found, opres, storage, objects>>

\* graph.remove_transition(from_node, to_node)
RemoveTransition ==
    /\ \E from_node \in EditIds, to_node \in EditIds :
        graph' = remove_transition(graph, from_node, to_node)
    /\ UNCHANGED <<sim, sim_prev, choices, found, opres, storage, objects>>

NextGraph == AddNode \/ RemoveNode \/ AddTransition \/ RemoveTransition

SpecGraph == InitGraph /\ [][NextGraph]_vars

\* The shared helper called on its own, with decision lists long enough for
\* a loop that is not short.
MaxHelperDecisions == 4

\* what a call of the helper leaves: the pair it returns and the storage
HelperReturned(call, made) ==
    /\ opres' = [stored |-> storage, loop |-> made.loop, simulation |-> made.result]
                @@ [call EXCEPT !.persist = @ /\ storage.attached]
    /\ storage' = persist(storage, call.persist, made.loop)

\* loop, sim = operator._simulate_and_create_loop(decisions, epoch, K, parent_id, save)
SimulateAndCreateLoop ==
    /\ ~opres.called
    /\ \E decisions \in SeqsUpTo(Ids, MaxHelperDecisions), K \in KnowledgeSets,
          save \in BOOLEAN :
        HelperReturned([called |-> TRUE, op |-> "helper", decisions |-> decisions,
                        initial_knowledge |-> K, persist |-> save],
                       simulate_and_create_loop(graph, decisions, "naive", K, None))
    /\ UNCHANGED <<graph, sim, sim_prev, choices, found, objects>>

InitHelper == graph \in SimGraphs /\ storage \in {NoStorage, LoopStorage(<<>>)} /\ Idle

NextHelper == SimulateAndCreateLoop

SpecHelper == InitHelper /\ [][NextHelper]_vars

\* The hashes computed twice, of sets with the same elements iterated in
\* two orders.
MaxSetSize == 3

Characters == {<<"PROTAGONIST">>, <<"SISTER">>, <<"VILLAIN">>}
StateChanges == {<<"BOMB_EXPLODED">>, <<"VILLAIN_CAUGHT">>}
EndingTypes == {"survived", "explosion"}
Facts == {<<"x">>, <<"y">>, <<"lab">>}
Secrets == {<<"KNOW">>, <<"AT">>}

\* the pairs of orders in which two sets of the same elements are iterated
OrderPairs(U) ==
    UNION {Orders(S) \X Orders(S) : S \in {T \in SUBSET U : Cardinality(T) <= MaxSetSize}}

\* compute_outcome_hash(survivors, deaths, state_changes, ending_type), twice
ComputeOutcomeHash ==
    /\ ~opres.called
    /\ \E survivors \in OrderPairs(Characters),
          deaths \in OrderPairs(Characters \ {<<"VILLAIN">>}),
          state_changes \in OrderPairs(StateChanges), ending_type \in EndingTypes :
        opres' = [called |-> TRUE, op |-> "compute_outcome_hash",
                  first |-> <<survivors[1], deaths[1], state_changes[1]>>,
                  second |-> <<survivors[2], deaths[2], state_changes[2]>>,
                  ending_type |-> ending_type,
                  hashes |-> <<outcome_hash_iterating(survivors[1], deaths[1],
                                   state_changes[1], ending_type),
                               outcome_hash_iterating(survivors[2], deaths[2],
                                   state_changes[2], ending_type)>>]
    /\ UNCHANGED <<graph, sim, sim_prev, choices, found, storage, objects>>

\* compute_knowledge_id(facts, secrets, skills), twice
ComputeKnowledgeId ==
    /\ ~opres.called
    /\ \E facts \in OrderPairs(Facts), secrets \in OrderPairs(Secrets),
          skills \in OrderPairs(StateChanges) :
        opres' = [called |-> TRUE, op |-> "compute_knowledge_id",
                  first |-> <<facts[1], secrets[1], skills[1]>>,
                  second |-> <<facts[2], secrets[2], skills[2]>>,
                  ending_type |-> "",
                  hashes |-> <<knowledge_id_iterating(facts[1], secrets[1], skills[1]),
                               knowledge_id_iterating(facts[2], secrets[2], skills[2])>>]
    /\ UNCHANGED <<graph, sim, sim_prev, choices, found, storage, objects>>

InitHash == graph = create_empty_graph /\ storage = NoStorage /\ Idle

NextHash == ComputeOutcomeHash \/ ComputeKnowledgeId

SpecHash == InitHash /\ [][NextHash]_vars

\* Decisions encoded and decoded again: the names are those of the test,
\* the bit positions 0..MaxBit.
MaxBit == 2

DecisionNames == {<<"GO_BANK">>, <<"SAVE_SISTER">>, <<"CHASE_VILLAIN">>}

\* the dicts with keys among K and values in V, in every insertion order
Dicts(K, V) ==
    {d \in UNION {[1..n -> K \X V] : n \in 0..Cardinality(K)} :
        \A i, j \in 1..Len(d) : d[i][1] = d[j][1] => i = j}

\* decode_decisions(encode_decisions(decision_flags, decision_map), decision_map)
EncodeDecode ==
    /\ ~opres.called
    /\ \E decision_flags \in Dicts(DecisionNames, BOOLEAN),
          decision_map \in Dicts(DecisionNames, 0..MaxBit) :
        opres' = [called |-> TRUE, op |-> "encode_decode",
                  decision_flags |-> decision_flags, decision_map |-> decision_map,
                  encoded |-> encode_decisions(decision_flags, decision_map),
                  decoded |-> decode_decisions(
                                  encode_decisions(decision_flags, decision_map),
                                  decision_map)]
    /\ UNCHANGED <<graph, sim, sim_prev, choices, found, storage, objects>>

NextDecisions == EncodeDecode

SpecDecisions == InitHash /\ [][NextDecisions]_vars

\* Decision vectors of MaxWidth bits, mutated in their lowest max_bits bits
\* and compared.
MaxWidth == 4
MaxFlips == 4

Vectors == 0..(2^MaxWidth - 1)

\* mutated = mutate_vector(vec, n_flips, max_bits)
MutateVector ==
    /\ ~opres.called
    /\ \E vec \in Vectors, n_flips \in 0..MaxFlips, max_bits \in 0..(MaxWidth - 1) :
        \E bits_to_flip \in sample(max_bits, Min(n_flips, max_bits)) :
            opres' = [called |-> TRUE, op |-> "mutate_vector", vec |-> vec,
                      n_flips |-> n_flips, max_bits |-> max_bits,
                      bits_to_flip |-> bits_to_flip,
                      mutated |-> mutate_vector(vec, bits_to_flip)]
    /\ UNCHANGED <<graph, sim, sim_prev, choices, found, storage, objects>>

\* hamming_distance(vec1, vec2), hamming_distance(vec2, vec1), hamming_distance(vec1, vec1)
HammingDistance ==
    /\ ~opres.called
    /\ \E vec1 \in Vectors, vec2 \in Vectors :
        opres' = [called |-> TRUE, op |-> "hamming_distance", vec1 |-> vec1, vec2 |-> vec2,
                  distance |-> hamming_distance(vec1, vec2),
                  reversed |-> hamming_distance(vec2, vec1),
                  self |-> hamming_distance(vec1, vec1)]
    /\ UNCHANGED <<graph, sim, sim_prev, choices, found, storage, objects>>

NextVectors == MutateVector \/ HammingDistance

SpecVectors == InitHash /\ [][NextVectors]_vars

\* apply_effects called on set objects, for every effect list of up to
\* MaxEffects effects; knowledge and world_state may be one object.
MaxEffects == 3

Effects ==
    {<<"LEARN", "x">>, <<"LEARN", "y">>, <<"SET", "y">>, <<"UNSET", "y">>, <<"UNSET", "x">>,
     <<"y">>}

\* the sets a caller holds: two objects for knowledge and facts
CallerObjects ==
    {new(new(NoObjects, K), F) : K \in SUBSET {<<"x">>}, F \in SUBSET {<<"x">>, <<"y">>}}

\* what the call and the call on its own output left
EffectsApplied(call, before, out, again) ==
    opres' = [before |-> before, after |-> again.heap,
              new_knowledge |-> out.new_knowledge, new_world |-> out.new_world,
              again_knowledge |-> again.new_knowledge, again_world |-> again.new_world]
             @@ call

\* k, w = node.apply_effects(knowledge, world_state); node.apply_effects(k, w)
ApplyEffects ==
    /\ ~opres.called
    /\ \E effects \in SeqsUpTo(Effects, MaxEffects), before \in CallerObjects,
          knowledge \in 1..2, world_state \in 1..2 :
        EffectsApplied([called |-> TRUE, op |-> "apply_effects", effects |-> effects,
                        knowledge |-> knowledge, world_state |-> world_state],
            before,
            apply_effects_of(before, EventNode("n", 0, "soft", "", <<>>, effects),
                             knowledge, world_state),
            apply_effects_of(
                apply_effects_of(before, EventNode("n", 0, "soft", "", <<>>, effects),
                                 knowledge, world_state).heap,
                EventNode("n", 0, "soft", "", <<>>, effects),
                apply_effects_of(before, EventNode("n", 0, "soft", "", <<>>, effects),
                                 knowledge, world_state).new_knowledge,
                apply_effects_of(before, EventNode("n", 0, "soft", "", <<>>, effects),
                                 knowledge, world_state).new_world))
    /\ UNCHANGED <<graph, sim, sim_prev, choices, found, storage, objects>>

NextEffects == ApplyEffects

SpecEffects == InitHash /\ [][NextEffects]_vars

\* A WorldState, its copy, and up to MaxCalls calls on either of them.
MaxCalls == 3

VisitedNodes == {ScenarioNodes[i] : i \in {2, 3, 5}}

InitObjects ==
    /\ graph = create_empty_graph /\ storage = NoStorage
    /\ sim = NoSim /\ sim_prev = NoSim /\ choices = NoChoices /\ found = NoFound
    /\ opres = NoOp
    /\ objects \in {new_state(NoObjects, K, F) : K \in SUBSET {<<"x">>}, F \in SUBSET {<<"y">>}}

\* the objects after a call, with the call noted
Called(heap, op, self) ==
    /\ objects.calls < MaxCalls
    /\ objects' = [heap EXCEPT !.calls = @ + 1, !.last = [op |-> op, self |-> self]]
    /\ UNCHANGED <<graph, sim, sim_prev, choices, found, opres, storage>>

\* copy = state.copy_state()
CopyState ==
    /\ Len(objects.states) = 1
    /\ Called(copy_state(objects, 1), "copy_state", 1)

\* state.visit_node(node)
VisitNode ==
    \E self \in 1..Len(objects.states), node \in VisitedNodes :
        Called(visit_node_of(objects, self, node), "visit_node", self)

\* state.knowledge.add(x), state.world_facts.add(x), state.world_facts.discard(x)
MutateSet ==
    \E self \in 1..Len(objects.states), x \in {<<"x">>, <<"y">>} :
        \/ Called(set_add(objects, objects.states[self].knowledge, x), "knowledge.add", self)
        \/ Called(set_add(objects, objects.states[self].world_facts, x), "world_facts.add", self)
        \/ Called(set_discard(objects, objects.states[self].world_facts, x),
                  "world_facts.discard", self)

\* state.visited_nodes.append(node_id)
AppendVisited ==
    \E self \in 1..Len(objects.states), node_id \in {"a", "ghost"} :
        Called(list_append(objects, objects.states[self].visited_nodes, node_id),
               "visited_nodes.append", self)

NextObjects == CopyState \/ VisitNode \/ MutateSet \/ AppendVisited

SpecObjects == InitObjects /\ [][NextObjects]_vars

\* validate on the scenario graphs, on graphs with no start node, on the
\* empty graph, on graphs with a node that is alone in the last time slot or
\* a second node at time_slot 0, and on graphs one of whose nodes was added
\* a second time.
LateNode == EventNode("late", default_total_time_slots - 1, "soft", "home", <<>>, <<>>)
SecondStart == EventNode("ghost", 0, "soft", "home", <<>>, <<>>)

ValidatedGraphs ==
    {create_empty_graph} \cup Graphs \cup NoStartGraphs
    \cup {add_node(G, n) : G \in SimGraphs \cup NoStartGraphs, n \in {LateNode, SecondStart}}
    \cup {add_node(G, get_node(G, id)) : G \in SimGraphs, id \in NodeIds}

InitValidate == graph \in ValidatedGraphs /\ storage = NoStorage /\ Idle

\* errors = graph.validate()
Validate ==
    /\ ~opres.called
    /\ opres' = [called |-> TRUE, op |-> "validate", errors |-> validate(graph)]
    /\ UNCHANGED <<graph, sim, sim_prev, choices, found, storage, objects>>

NextValidate == Validate

SpecValidate == InitValidate /\ [][NextValidate]_vars

\* find_paths on the scenario with its parallel r -> t edges, the edge out
\* of the death node and the cycle varying, and on two graphs whose start
\* node has a precondition.
GuardedStart == EventNode("start", 0, "soft", "home", << <<"KNOW", "x">> >>, <<>>)

SearchGraphs ==
    {ScenarioGraph({"sr", "st"} \cup opts) : opts \in SUBSET {"rt1", "rt2", "dt", "cyc"}}
    \cup {from_dict(<<GuardedStart>> \o Tail(ScenarioNodes),
                     pick_transitions(CandidateTransitions, {"sr", "st"} \cup opts)) :
             opts \in {{"rt1", "rt2", "dt"}}}

InitSearch == graph \in SearchGraphs /\ storage = NoStorage /\ Idle

NextSearch == FindPaths

SpecSearch == InitSearch /\ [][NextSearch]_vars

(***************************************************************************)
\* for path in graph.find_paths(start, goal, K, F): graph.simulate_loop(path, K, F)
\* (operators.py:178-199 makes these two calls with the same knowledge)
SimulateFound ==
    /\ found.called
    /\ ~sim.called
    /\ \E i \in 1..Len(found.result) :
        LET path == found.result[i] IN
        sim' = [called |-> TRUE, decisions |-> path,
                initial_knowledge |-> found.knowledge,
                initial_world |-> found.world_state,
                probabilistic |-> FALSE,
                result |-> simulate_loop(graph, path, found.knowledge, found.world_state,
                                         FALSE, [j \in 2..Len(path) |-> 0])]
    /\ UNCHANGED <<graph, sim_prev, choices, found, opres, storage, objects>>

NextAgree == FindPaths \/ SimulateFound

SpecAgree == InitSearch /\ [][NextAgree]_vars

\* The three places that decide whether the step from current_node to
\* to_node is legal with knowledge K and facts F: get_valid_choices, the
\* checks simulate_loop makes before it visits decisions[i] = to_node after
\* decisions[i - 1] = current_node (deterministic mode), and the loop of
\* find_paths over the transitions of a dequeued entry whose path is
\* [current_node].  find_paths decides after the effects of current_node.
DecideStep ==
    /\ ~choices.called
    /\ \E current_node \in Ids, to_node \in Ids, K \in KnowledgeSets, W \in FactSets :
        LET entry == [current |-> current_node, path |-> <<current_node>>,
                      knowledge |-> K, world |-> W]
            queued == expand(graph, entry)
        IN
        choices' = [called |-> TRUE, current_node |-> current_node, to_node |-> to_node,
                    knowledge |-> K, world_state |-> W,
                    result |-> get_valid_choices(graph, current_node, K, W),
                    accepted |-> step_error(graph, <<current_node, to_node>>, 2,
                                            WorldState(K, W), FALSE, 0) = NoMessage,
                    extended |-> \E i \in 1..Len(queued) : queued[i].current = to_node]
    /\ UNCHANGED <<graph, sim, sim_prev, found, opres, storage, objects>>

NextLegality == DecideStep

SpecLegality == InitSearch /\ [][NextLegality]_vars

\* one call of one of the six operators, constructed on the graph with or
\* without a storage
NextOperators ==
    \/ CauseExecute
    \/ AvoidExecute
    \/ TriggerExecute
    \/ ReliveExecute
    \/ SlightlyChangeExecute
    \/ GreatlyChangeExecute

\* the scenario with the edge out of the death node, without and with the
\* parallel r -> t edges
OperatorGraphs == {ScenarioGraph({"sr", "st", "dt"} \cup opts) : opts \in {{}, {"rt1", "rt2"}}}

InitOperators == graph \in OperatorGraphs /\ storage \in Storages /\ Idle

SpecOperators == InitOperators /\ [][NextOperators]_vars

\* reachable = graph.get_reachability_map(from_node, knowledge, world_state)
GetReachabilityMap ==
    /\ ~choices.called /\ ~found.called
    /\ \E from_node \in Ids, K \in KnowledgeSets, W \in FactSets :
        found' = [called |-> TRUE, start |-> from_node, knowledge |-> K,
                  world_state |-> W,
                  reachable |-> get_reachability_map(graph, from_node, K, W)]
    /\ UNCHANGED <<graph, sim, sim_prev, choices, opres, storage, objects>>

NextReach == GetReachabilityMap

SpecReach == InitSearch /\ [][NextReach]_vars

\* find_choke_points on the scenario with a second death node and any of its
\* transitions, node r critical or not, with and without the start node
RECURSIVE pick_at(_, _, _)
pick_at(q, S, i) ==
    IF i > Len(q) THEN <<>>
    ELSE (IF i \in S THEN <<q[i]>> ELSE <<>>) \o pick_at(q, S, i + 1)

ChokeNodes(r_type) ==
    <<ScenarioNodes[1], ScenarioNodes[2],
      EventNode("r", 2, r_type, "lab", <<>>, << <<"LEARN", "x">> >>),
      ScenarioNodes[4], ScenarioNodes[5],
      EventNode("d2", 3, "death", "lab", <<>>, <<>>)>>

ChokeTransitions ==
    <<Transition("start", "a", <<>>, 100),
      Transition("start", "r", <<>>, 100),
      Transition("a", "r", <<>>, 100),
      Transition("a", "d", <<>>, 100),
      Transition("r", "d", <<>>, 100),
      Transition("r", "d2", <<>>, 100),
      Transition("a", "t", <<>>, 100),
      Transition("t", "d2", <<>>, 100),
      Transition("r", "a", <<>>, 100)>>

ChokeGraphs ==
    {from_dict(nodes, pick_at(ChokeTransitions, S, 1)) :
        nodes \in {ChokeNodes("revelation"), ChokeNodes("critical"),
                   Tail(ChokeNodes("critical"))},
        S \in SUBSET (1..Len(ChokeTransitions))}

InitChoke == graph \in ChokeGraphs /\ storage = NoStorage /\ Idle

\* choke_points = graph.find_choke_points()
FindChokePoints ==
    /\ ~found.called
    /\ found' = [called |-> TRUE, choke_points |-> find_choke_points(graph)]
    /\ UNCHANGED <<graph, sim, sim_prev, choices, opres, storage, objects>>

NextChoke == FindChokePoints

SpecChoke == InitChoke /\ [][NextChoke]_vars

\* the scenario with a start node that teaches x
TeachingStart == EventNode("start", 0, "soft", "home", <<>>, << <<"LEARN", "x">> >>)

StitchGraphs ==
    {ScenarioGraph({"sr", "st", "dt"} \cup opts) : opts \in SUBSET {"rt1", "rt2"}}
    \cup {from_dict(<<TeachingStart>> \o Tail(ScenarioNodes),
                    pick_transitions(CandidateTransitions, {"st", "dt", "rt2"}))}

InitStitch == graph \in StitchGraphs /\ storage = NoStorage /\ Idle

\* result = TriggerOperator(graph).execute(sequence, initial_knowledge=K), with
\* the calls of find_paths it makes on the way
TriggerStitch ==
    /\ ~opres.called
    /\ \E sequence \in SeqsUpTo(NodeIds, MaxSequence) \ {<<>>}, K \in KnowledgeSets :
        opres' = [called |-> TRUE, op |-> "trigger", target |-> sequence,
                  initial_knowledge |-> K,
                  calls |-> trigger_find_paths_calls(graph, sequence, 1, K,
                                IF sequence[1] # get_start_node(graph).id
                                THEN <<get_start_node(graph).id>> ELSE <<>>,
                                get_start_node(graph).id),
                  result |-> trigger_execute(graph, sequence, "naive", K, None)]
    /\ UNCHANGED <<graph, sim, sim_prev, choices, found, storage, objects>>

NextStitch == TriggerStitch

SpecStitch == InitStitch /\ [][NextStitch]_vars

(***************************************************************************)
(* The searches one iteration at a time: found holds the search that is    *)
(* running, its queue or its walk, and running is false once it returned.  *)
(***************************************************************************)

\* graphs with the cycle t -> start and the self-loop on a, and one without
TerminateGraphs ==
    {ScenarioGraph({"sr", "st", "cyc"} \cup opts) : opts \in SUBSET {"rt2", "dt"}}
    \cup {ScenarioGraph({"sr", "st", "rt2", "dt"})}

InitTerminate == graph \in TerminateGraphs /\ storage = NoStorage /\ Idle

\* graph.find_paths(start, goal, K, F, max_paths, max_depth) up to its loop
FindPathsStart ==
    /\ ~found.called
    /\ \E start \in Ids, goal \in Ids, K \in KnowledgeSets, W \in FactSets,
          max_paths \in (1..MaxPaths) \cup {default_max_paths},
          max_depth \in (1..MaxDepth) \cup {default_max_depth} :
        found' = [called |-> TRUE, kind |-> "find_paths",
                  running |-> has_node(graph, start) /\ has_node(graph, goal),
                  start |-> start, goal |-> goal, knowledge |-> K, world_state |-> W,
                  max_paths |-> max_paths, max_depth |-> max_depth,
                  queue |-> <<[current |-> start, path |-> <<start>>,
                               knowledge |-> K, world |-> W]>>,
                  paths |-> <<>>]
    /\ UNCHANGED <<graph, sim, sim_prev, choices, opres, storage, objects>>

\* the test of the while loop and one iteration of it
FindPathsIterate ==
    /\ found.called /\ found.kind = "find_paths" /\ found.running
    /\ found' =
          IF find_paths_continues(found.queue, found.paths, found.max_paths)
          THEN [found EXCEPT
                    !.queue = find_paths_iterate(graph, found.goal, found.max_depth,
                                                 found.queue, found.paths).queue,
                    !.paths = find_paths_iterate(graph, found.goal, found.max_depth,
                                                 found.queue, found.paths).paths]
          ELSE [found EXCEPT !.running = FALSE]
    /\ UNCHANGED <<graph, sim, sim_prev, choices, opres, storage, objects>>

\* graph.get_reachability_map(from_node, K, F) up to its loop
ReachStart ==
    /\ ~found.called
    /\ \E from_node \in Ids, K \in KnowledgeSets, W \in FactSets :
        found' = [called |-> TRUE, kind |-> "get_reachability_map",
                  running |-> has_node(graph, from_node),
                  start |-> from_node, knowledge |-> K, world_state |-> W,
                  queue |-> <<[current |-> from_node, knowledge |-> K, world |-> W]>>,
                  visited |-> {}]
    /\ UNCHANGED <<graph, sim, sim_prev, choices, opres, storage, objects>>

ReachIterate ==
    /\ found.called /\ found.kind = "get_reachability_map" /\ found.running
    /\ found' =
          IF found.queue # <<>>
          THEN [found EXCEPT
                    !.queue = reach_iterate(graph, found.queue, found.visited).queue,
                    !.visited = reach_iterate(graph, found.queue, found.visited).visited]
          ELSE [found EXCEPT !.running = FALSE]
    /\ UNCHANGED <<graph, sim, sim_prev, choices, opres, storage, objects>>

\* the reference traces of the step-by-step GreatlyChange
TerminateTraces == {<<"start", "t">>, <<"start", "a", "d">>}

\* GreatlyChangeOperator.execute once the reference loop is found, up to its
\* loop over the attempts
GreatlyChangeStart ==
    /\ ~found.called
    /\ \E trace \in TerminateTraces, K \in KnowledgeSets,
          min_distance \in {0, MaxDistance}, max_attempts \in 1..MaxAttempts,
          max_steps \in 1..MaxSteps :
        found' = [called |-> TRUE, kind |-> "greatly_change", running |-> TRUE,
                  trace |-> trace, knowledge |-> K, min_distance |-> min_distance,
                  max_attempts |-> max_attempts, max_steps |-> max_steps,
                  attempt |-> 0, walking |-> FALSE, decisions |-> <<>>,
                  state |-> WorldState(K, {}), steps |-> 0, best_distance |-> 0]
    /\ UNCHANGED <<graph, sim, sim_prev, choices, opres, storage, objects>>

\* "for attempt in range(max_attempts)": the next attempt starts its walk at
\* the start node, or the loop is over
AttemptStart ==
    /\ found.called /\ found.kind = "greatly_change" /\ found.running
    /\ ~found.walking
    /\ found' =
          IF found.attempt < found.max_attempts
          THEN [found EXCEPT
                    !.attempt = @ + 1, !.walking = TRUE,
                    !.decisions = <<get_start_node(graph).id>>,
                    !.state = visit_node(WorldState(found.knowledge, {}),
                                         get_start_node(graph)),
                    !.steps = 0]
          ELSE [found EXCEPT !.running = FALSE]
    /\ UNCHANGED <<graph, sim, sim_prev, choices, opres, storage, objects>>

\* one iteration of the for loop of _random_exploration
WalkStep ==
    /\ found.called /\ found.kind = "greatly_change" /\ found.running
    /\ found.walking
    /\ found.steps <= MaxSteps
    /\ walk_continues(found.state, found.steps, found.max_steps,
                      get_valid_choices(graph, found.state.current_node,
                                        found.state.knowledge, found.state.world_facts))
    /\ \E trans \in set(get_valid_choices(graph, found.state.current_node,
                                          found.state.knowledge, found.state.world_facts)) :
        found' = [found EXCEPT
                     !.decisions = Append(@, trans.to_node),
                     !.state = visit_node(@, get_node(graph, trans.to_node)),
                     !.steps = @ + 1]
    /\ UNCHANGED <<graph, sim, sim_prev, choices, opres, storage, objects>>

\* the walk returned: the decisions are simulated, the best distance is
\* kept, and the attempts end at min_distance
WalkEnd ==
    /\ found.called /\ found.kind = "greatly_change" /\ found.running
    /\ found.walking
    /\ ~walk_continues(found.state, found.steps, found.max_steps,
                       get_valid_choices(graph, found.state.current_node,
                                         found.state.knowledge, found.state.world_facts))
    /\ found' =
          IF simulate_and_create_loop(graph, found.decisions, "naive",
                                      found.knowledge, None).loop # <<>>
          THEN [found EXCEPT
                    !.walking = FALSE,
                    !.best_distance =
                        IF compute_trace_distance(found.trace, found.decisions) > @
                        THEN compute_trace_distance(found.trace, found.decisions) ELSE @,
                    !.running =
                        compute_trace_distance(found.trace, found.decisions)
                            < found.min_distance]
          ELSE [found EXCEPT !.walking = FALSE]
    /\ UNCHANGED <<graph, sim, sim_prev, choices, opres, storage, objects>>

NextTerminate ==
    \/ FindPathsStart
    \/ FindPathsIterate
    \/ ReachStart
    \/ ReachIterate
    \/ GreatlyChangeStart
    \/ AttemptStart
    \/ WalkStep
    \/ WalkEnd

SpecTerminate == InitTerminate /\ [][NextTerminate]_vars

\* the call runs: the interpreter takes the next step whenever there is one
SpecTerminateFair == SpecTerminate /\ WF_vars(NextTerminate)

(***************************************************************************)
(* The searches on objects: which set and list objects a call makes, and   *)
(* which it changes in place.  A reference 0 is an argument left out.      *)
(***************************************************************************)

\* "x or set()": x itself, or a new empty set for None and for an empty set
or_set(heap, ref) ==
    IF ref # 0 /\ heap.cells[ref] # {} THEN same_object(heap, ref)
    ELSE [heap |-> new(heap, {}), ref |-> Len(heap.cells) + 1]

\* "x.copy() if x else set()"
copy_or_set(heap, ref) ==
    IF ref # 0 /\ heap.cells[ref] # {} THEN copy(heap, ref)
    ELSE [heap |-> new(heap, {}), ref |-> Len(heap.cells) + 1]

\* the value of an argument
value_of(heap, ref) == IF ref = 0 THEN {} ELSE heap.cells[ref]

\* WorldState(knowledge=k, world_facts=w) on the objects k and w, with a new
\* visited_nodes list
state_on(heap, k, w) ==
    [heap EXCEPT
        !.cells = Append(@, <<>>),
        !.states = Append(@, [time_slot |-> 0, current_node |-> None, location |-> "",
                              knowledge |-> k, world_facts |-> w,
                              visited_nodes |-> Len(heap.cells) + 1,
                              is_dead |-> FALSE, death_node |-> None])]

\* state.visit_node(node) for the nodes of a walk, in order
RECURSIVE visit_nodes_of(_, _, _, _, _)
visit_nodes_of(heap, G, self, walked, i) ==
    IF i > Len(walked) THEN heap
    ELSE CHOOSE left \in
             {visit_nodes_of(visited, G, self, walked, i + 1) :
                 visited \in {visit_node_of(heap, self, get_node(G, walked[i]))}} : TRUE

\* the state simulate_loop makes from the copies of its arguments
simulate_loop_state(copied_knowledge, initial_world) ==
    state_on(copy_or_set(copied_knowledge.heap, initial_world).heap,
             copied_knowledge.ref,
             copy_or_set(copied_knowledge.heap, initial_world).ref)

\* graph.simulate_loop(decisions, initial_knowledge, initial_world) on
\* objects: the state is made from copies and visits the nodes of the walk
simulate_loop_of(heap, G, decisions, initial_knowledge, initial_world, probabilistic, draws) ==
    CHOOSE left \in
        {visit_nodes_of(
             state, G, Len(heap.states) + 1,
             simulate_loop(G, decisions, value_of(heap, initial_knowledge),
                           value_of(heap, initial_world), probabilistic,
                           draws).final_state.visited_nodes,
             1) :
            state \in {simulate_loop_state(copy_or_set(heap, initial_knowledge),
                                           initial_world)}} : TRUE

\* a queue entry as find_paths reads it: the values of its two sets
entry_values(heap, entry) ==
    [entry EXCEPT !.knowledge = heap.cells[@], !.world = heap.cells[@]]

\* an entry with the copy of curr_knowledge made and the copy of curr_world
queue_entry(copied_knowledge, curr_world, entry) ==
    [heap |-> copy(copied_knowledge.heap, curr_world).heap,
     queue |-> <<[entry EXCEPT !.knowledge = copied_knowledge.ref,
                               !.world = copy(copied_knowledge.heap, curr_world).ref]>>]

\* queue.append((..., curr_knowledge.copy(), curr_world.copy())) for each
\* of the entries the for loop queues
RECURSIVE queue_copies(_, _, _, _, _, _)
queue_copies(heap, queue, queued, i, curr_knowledge, curr_world) ==
    IF i > Len(queued) THEN [heap |-> heap, queue |-> queue]
    ELSE CHOOSE left \in
             {queue_copies(one.heap, queue \o one.queue, queued, i + 1,
                           curr_knowledge, curr_world) :
                 one \in {queue_entry(copy(heap, curr_knowledge), curr_world,
                                      queued[i])}} : TRUE

\* the while loop of find_paths on objects; paths counts the paths found
RECURSIVE bfs_of(_, _, _, _, _, _, _)
bfs_of(heap, G, goal, max_paths, max_depth, queue, paths) ==
    IF queue = <<>> \/ paths >= max_paths THEN heap
    ELSE IF Len(Head(queue).path) > max_depth
    THEN bfs_of(heap, G, goal, max_paths, max_depth, Tail(queue), paths)
    ELSE IF Head(queue).current = goal
    THEN bfs_of(heap, G, goal, max_paths, max_depth, Tail(queue), paths + 1)
    ELSE CHOOSE left \in
             {bfs_of(queued.heap, G, goal, max_paths, max_depth, queued.queue, paths) :
                 queued \in
                     {queue_copies(applied.heap, Tail(queue),
                                   expand(G, entry_values(heap, Head(queue))), 1,
                                   applied.new_knowledge, applied.new_world) :
                         applied \in
                             {apply_effects_of(heap, get_node(G, Head(queue).current),
                                               Head(queue).knowledge,
                                               Head(queue).world)}}} : TRUE

\* "knowledge = knowledge or set(); world_state = world_state or set()" and
\* the first queue entry
search_entry(bound_knowledge, world_state, entry) ==
    queue_entry(copy(or_set(bound_knowledge.heap, world_state).heap, bound_knowledge.ref),
                or_set(bound_knowledge.heap, world_state).ref, entry)

\* graph.find_paths(start, goal, knowledge, world_state, max_paths, max_depth)
\* on objects: the objects after the call
find_paths_of(heap, G, start, goal, knowledge, world_state, max_paths, max_depth) ==
    IF ~has_node(G, start) \/ ~has_node(G, goal) THEN heap
    ELSE CHOOSE left \in
             {bfs_of(first.heap, G, goal, max_paths, max_depth, first.queue, 0) :
                 first \in {search_entry(or_set(heap, knowledge), world_state,
                                         [current |-> start, path |-> <<start>>,
                                          knowledge |-> 0, world |-> 0])}} : TRUE

\* the while loop of get_reachability_map on objects
RECURSIVE reach_of(_, _, _, _)
reach_of(heap, G, queue, visited) ==
    IF queue = <<>> THEN heap
    ELSE IF Head(queue).current \in visited THEN reach_of(heap, G, Tail(queue), visited)
    ELSE CHOOSE left \in
             {reach_of(queued.heap, G, queued.queue, visited \cup {Head(queue).current}) :
                 queued \in
                     {queue_copies(applied.heap, Tail(queue),
                                   reach_queued(G, Head(queue).current,
                                       visited \cup {Head(queue).current},
                                       apply_effects(get_node(G, Head(queue).current),
                                                     heap.cells[Head(queue).knowledge],
                                                     heap.cells[Head(queue).world])),
                                   1, applied.new_knowledge, applied.new_world) :
                         applied \in
                             {apply_effects_of(heap, get_node(G, Head(queue).current),
                                               Head(queue).knowledge,
                                               Head(queue).world)}}} : TRUE

\* graph.get_reachability_map(from_node, knowledge, world_state) on objects
get_reachability_map_of(heap, G, from_node, knowledge, world_state) ==
    IF ~has_node(G, from_node) THEN heap
    ELSE CHOOSE left \in
             {reach_of(first.heap, G, first.queue, {}) :
                 first \in {search_entry(or_set(heap, knowledge), world_state,
                                         [current |-> from_node,
                                          knowledge |-> 0, world |-> 0])}} : TRUE

(***************************************************************************)
(* The operators on objects.  Each takes the objects as they are and       *)
(* gives the objects after execute; what a call returns is read off the    *)
(* values its arguments have when it is made.                              *)
(***************************************************************************)

\* self._simulate_and_create_loop(decisions, epoch, initial_knowledge, ...):
\* simulate_loop is called with the caller's initial_knowledge and no world
simulate_and_create_loop_of(heap, G, decisions, initial_knowledge) ==
    simulate_loop_of(heap, G, decisions, initial_knowledge, 0, FALSE, NoDraws(decisions))

RECURSIVE cause_explore_revelations_of(_, _, _, _, _, _)
RECURSIVE cause_try_revelation_of(_, _, _, _, _, _, _)
RECURSIVE cause_walk_revelation_of(_, _, _, _, _, _, _)

\* "knowledge = sim.final_state.knowledge.copy()" and the second search for
\* the target; the loop goes on if it finds no path
cause_try_target_of(copied, G, start, target_event, revelations) ==
    IF find_paths(G, start, target_event, copied.heap.cells[copied.ref], {}, 1,
                  default_max_depth) # <<>>
    THEN find_paths_of(copied.heap, G, start, target_event, copied.ref, 0, 1,
                       default_max_depth)
    ELSE cause_explore_revelations_of(
             find_paths_of(copied.heap, G, start, target_event, copied.ref, 0, 1,
                           default_max_depth),
             G, start, target_event, Tail(revelations), copied.ref)

\* the loop body once the walk to the revelation is made; the state of the
\* walk is the last state object
cause_walk_revelation_of(heap, G, start, target_event, revelations, knowledge, sim_result) ==
    IF ~sim_result.success
    THEN cause_explore_revelations_of(heap, G, start, target_event, Tail(revelations),
                                      knowledge)
    ELSE cause_try_target_of(copy(heap, heap.states[Len(heap.states)].knowledge),
                             G, start, target_event, revelations)

\* the loop body once the search for the revelation is made
cause_try_revelation_of(heap, G, start, target_event, revelations, knowledge, test_paths) ==
    IF test_paths = <<>>
    THEN cause_explore_revelations_of(heap, G, start, target_event, Tail(revelations),
                                      knowledge)
    ELSE CHOOSE left \in
             {cause_walk_revelation_of(
                  walked, G, start, target_event, revelations, knowledge,
                  simulate_loop(G, test_paths[1], heap.cells[knowledge], {}, FALSE,
                                NoDraws(test_paths[1]))) :
                 walked \in {simulate_loop_of(heap, G, test_paths[1], knowledge, 0, FALSE,
                                              NoDraws(test_paths[1]))}} : TRUE

\* the loop over the revelation nodes on objects
cause_explore_revelations_of(heap, G, start, target_event, revelations, knowledge) ==
    IF revelations = <<>> THEN heap
    ELSE CHOOSE left \in
             {cause_try_revelation_of(
                  searched, G, start, target_event, revelations, knowledge,
                  find_paths(G, start, Head(revelations).id, heap.cells[knowledge], {}, 1,
                             default_max_depth)) :
                 searched \in {find_paths_of(heap, G, start, Head(revelations).id,
                                             knowledge, 0, 1, default_max_depth)}} : TRUE

\* the first search for the target and, if it finds nothing, the loop over
\* the revelations
cause_paths_of(copied, G, start, target_event, max_attempts) ==
    IF find_paths(G, start, target_event, copied.heap.cells[copied.ref], {},
                  max_attempts, default_max_depth) # <<>>
    THEN find_paths_of(copied.heap, G, start, target_event, copied.ref, 0, max_attempts,
                       default_max_depth)
    ELSE cause_explore_revelations_of(
             find_paths_of(copied.heap, G, start, target_event, copied.ref, 0,
                           max_attempts, default_max_depth),
             G, start, target_event, get_revelation_nodes(G), copied.ref)

\* the end of execute: the shortest path is simulated with initial_knowledge
cause_finish_of(heap, G, initial_knowledge, paths) ==
    IF paths = <<>> THEN heap
    ELSE simulate_and_create_loop_of(heap, G, min_by_len(paths), initial_knowledge)

\* CauseOperator.execute(target_event, initial_knowledge=K) on objects
cause_execute_of(heap, G, target_event, initial_knowledge, max_attempts) ==
    IF ~has_start_node(G) \/ ~has_node(G, target_event) THEN heap
    ELSE CHOOSE left \in
             {cause_finish_of(
                  searched, G, initial_knowledge,
                  cause_paths(G, get_start_node(G).id, target_event,
                              value_of(heap, initial_knowledge),
                              find_paths(G, get_start_node(G).id, target_event,
                                         value_of(heap, initial_knowledge), {},
                                         max_attempts, default_max_depth))) :
                 searched \in {cause_paths_of(copy_or_set(heap, initial_knowledge), G,
                                              get_start_node(G).id, target_event,
                                              max_attempts)}} : TRUE

\* a random walk on objects: decisions is a new list, the state is made on
\* a copy of knowledge and a new set of facts, and every node walked after
\* the first is appended to decisions and visited
RECURSIVE walk_steps_of(_, _, _, _, _, _)
walk_steps_of(heap, G, self, decisions, walked, i) ==
    IF i > Len(walked) THEN heap
    ELSE CHOOSE left \in
             {walk_steps_of(visited, G, self, decisions, walked, i + 1) :
                 visited \in
                     {visit_node_of(IF i = 1 THEN heap
                                    ELSE list_append(heap, decisions, walked[i]),
                                    self, get_node(G, walked[i]))}} : TRUE

\* state = WorldState(knowledge=knowledge.copy())
walk_state(copied) ==
    state_on(new(copied.heap, {}), copied.ref, Len(copied.heap.cells) + 1)

walk_of(heap, G, knowledge, walked) ==
    IF walked = <<>> THEN heap
    ELSE walk_steps_of(walk_state(copy(new(heap, <<walked[1]>>), knowledge)), G,
                       Len(heap.states) + 1, Len(heap.cells) + 1, walked, 1)

\* the searches for the terminals, in the order the set is iterated
RECURSIVE collect_safe_paths_of(_, _, _, _, _, _, _)
collect_safe_paths_of(heap, G, start, terminals, target_event, knowledge, max_attempts) ==
    IF terminals = <<>> THEN heap
    ELSE CHOOSE left \in
             {collect_safe_paths_of(searched, G, start, Tail(terminals), target_event,
                                    knowledge, max_attempts) :
                 searched \in
                     {IF Head(terminals) = target_event THEN heap
                      ELSE find_paths_of(heap, G, start, Head(terminals), knowledge, 0,
                                         IF max_attempts \div 2 # 0
                                         THEN max_attempts \div 2 ELSE 1,
                                         default_max_depth)}} : TRUE

\* the fallback loop: one random walk for each attempt
RECURSIVE random_walks_of(_, _, _, _, _)
random_walks_of(heap, G, knowledge, walks, i) ==
    IF i > Len(walks) THEN heap
    ELSE CHOOSE left \in
             {random_walks_of(walked, G, knowledge, walks, i + 1) :
                 walked \in {walk_of(heap, G, knowledge, walks[i])}} : TRUE

\* execute from the copy of initial_knowledge on: terminal_nodes is a new
\* set, then the searches, the fallback if it runs, and the simulation
avoid_body_of(copied, G, target_event, initial_knowledge, max_attempts, terminals, walks, safe_paths) ==
    CHOOSE left \in
        {IF safe_paths = <<>> THEN walked
         ELSE simulate_and_create_loop_of(walked, G, max_by_len(safe_paths),
                                          initial_knowledge) :
            walked \in
                {random_walks_of(searched, G, copied.ref, walks, 1) :
                    searched \in
                        {collect_safe_paths_of(new(copied.heap, terminal_nodes(G)), G,
                                               get_start_node(G).id, terminals,
                                               target_event, copied.ref,
                                               max_attempts)}}} : TRUE

\* AvoidOperator.execute(target_event, initial_knowledge=K) on objects
avoid_execute_of(heap, G, target_event, initial_knowledge, max_attempts, terminals, walks) ==
    IF ~has_start_node(G) THEN heap
    ELSE avoid_body_of(copy_or_set(heap, initial_knowledge), G, target_event,
                       initial_knowledge, max_attempts, terminals, walks,
                       avoid_safe_paths(
                           collect_safe_paths(G, get_start_node(G).id, terminals,
                                              target_event,
                                              value_of(heap, initial_knowledge),
                                              max_attempts),
                           walks, target_event))

\* knowledge.update(k), k the knowledge apply_effects returned
knowledge_update(applied, knowledge) ==
    [applied.heap EXCEPT !.cells[knowledge] = @ \cup applied.heap.cells[applied.new_knowledge]]

\* the inner loop of Trigger on objects: full_path.append(node_id), then
\* "k, w = node.apply_effects(knowledge, set())" and knowledge.update(k)
RECURSIVE trigger_append_of(_, _, _, _, _)
trigger_append_of(heap, G, segment, full_path, knowledge) ==
    IF segment = <<>> THEN heap
    ELSE CHOOSE left \in
             {trigger_append_of(learned, G, Tail(segment), full_path, knowledge) :
                 learned \in
                     {knowledge_update(
                          apply_effects_of(
                              new(list_append(heap, full_path, Head(segment)), {}),
                              get_node(G, Head(segment)), knowledge, Len(heap.cells) + 1),
                          knowledge)}} : TRUE

RECURSIVE trigger_stitch_of(_, _, _, _, _, _, _)

\* the loop body once the search for checkpoint i is made
trigger_segment_of(heap, G, sequence, i, knowledge, full_path, paths) ==
    IF paths = <<>> THEN [stopped |-> TRUE, heap |-> heap]
    ELSE CHOOSE stitched \in
             {trigger_stitch_of(appended, G, sequence, i + 1, knowledge, full_path,
                                sequence[i]) :
                 appended \in {trigger_append_of(heap, G, Tail(paths[1]), full_path,
                                                 knowledge)}} : TRUE

\* the loop over the checkpoints on the objects knowledge and full_path
trigger_stitch_of(heap, G, sequence, i, knowledge, full_path, current) ==
    IF i > Len(sequence) THEN [stopped |-> FALSE, heap |-> heap]
    ELSE IF current = sequence[i]
    THEN trigger_stitch_of(
             IF ~InSeq(sequence[i], heap.cells[full_path])
             THEN list_append(heap, full_path, sequence[i]) ELSE heap,
             G, sequence, i + 1, knowledge, full_path, current)
    ELSE CHOOSE stitched \in
             {trigger_segment_of(searched, G, sequence, i, knowledge, full_path,
                                 find_paths(G, current, sequence[i], heap.cells[knowledge],
                                            {}, 1, default_max_depth)) :
                 searched \in {find_paths_of(heap, G, current, sequence[i], knowledge, 0, 1,
                                             default_max_depth)}} : TRUE

\* the end of execute: full_path is simulated with initial_knowledge
trigger_finish_of(stitched, G, full_path, initial_knowledge) ==
    IF stitched.stopped THEN stitched.heap
    ELSE simulate_and_create_loop_of(stitched.heap, G, stitched.heap.cells[full_path],
                                     initial_knowledge)

\* execute from the copy of initial_knowledge on: full_path is a new list
trigger_body_of(copied, G, sequence, initial_knowledge) ==
    CHOOSE left \in
        {trigger_finish_of(stitched, G, Len(copied.heap.cells) + 1, initial_knowledge) :
            stitched \in
                {trigger_stitch_of(
                     new(copied.heap, IF sequence[1] # get_start_node(G).id
                                      THEN <<get_start_node(G).id>> ELSE <<>>),
                     G, sequence, 1, copied.ref, Len(copied.heap.cells) + 1,
                     get_start_node(G).id)}} : TRUE

\* TriggerOperator.execute(sequence, initial_knowledge=K) on objects
trigger_execute_of(heap, G, sequence, initial_knowledge) ==
    IF sequence = <<>> \/ ~has_start_node(G) THEN heap
    ELSE IF \E i \in 1..Len(sequence) : ~has_node(G, sequence[i]) THEN heap
    ELSE trigger_body_of(copy_or_set(heap, initial_knowledge), G, sequence,
                         initial_knowledge)

\* the loop body of _follow_as_much_as_possible when the original choice is
\* valid: decisions.append(next_id), then
\* "k, _ = node.apply_effects(knowledge, set())" and knowledge.update(k)
follow_step_of(heap, G, next_id, decisions, knowledge) ==
    trigger_append_of(heap, G, <<next_id>>, decisions, knowledge)

\* the loop of _follow_as_much_as_possible on the objects original_trace,
\* decisions and knowledge; get_valid_choices is given a new empty set
RECURSIVE follow_rest_of(_, _, _, _, _, _)
follow_rest_of(heap, G, original_trace, i, decisions, knowledge) ==
    IF i > Len(heap.cells[original_trace]) THEN heap
    ELSE IF heap.cells[original_trace][i]
                \in valid_targets(G, heap.cells[decisions][Len(heap.cells[decisions])],
                                  heap.cells[knowledge])
    THEN CHOOSE left \in
             {follow_rest_of(followed, G, original_trace, i + 1, decisions, knowledge) :
                 followed \in {follow_step_of(new(heap, {}), G,
                                              heap.cells[original_trace][i], decisions,
                                              knowledge)}} : TRUE
    ELSE new(heap, {})

\* from the copy of initial_knowledge on: the effects of the first node
follow_start_of(copied, G, original_trace, decisions) ==
    follow_rest_of(
        IF has_node(G, copied.heap.cells[original_trace][1])
        THEN knowledge_update(
                 apply_effects_of(new(copied.heap, {}),
                                  get_node(G, copied.heap.cells[original_trace][1]),
                                  copied.ref, Len(copied.heap.cells) + 1),
                 copied.ref)
        ELSE copied.heap,
        G, original_trace, 2, decisions, copied.ref)

\* self._follow_as_much_as_possible(reference.decision_trace,
\* initial_knowledge) on objects; decisions is the first object it makes
follow_as_much_as_possible_of(heap, G, original_trace, initial_knowledge) ==
    IF heap.cells[original_trace] = <<>> THEN heap
    ELSE follow_start_of(
             copy_or_set(new(heap, <<heap.cells[original_trace][1]>>), initial_knowledge),
             G, original_trace, Len(heap.cells) + 1)

\* the second walk: of the decisions _follow_as_much_as_possible returned
relive_partial_of(heap, G, partial_decisions, initial_knowledge) ==
    simulate_and_create_loop_of(heap, G, heap.cells[partial_decisions], initial_knowledge)

\* execute after the walk of the exact trace
relive_after_exact_of(heap, G, original_trace, initial_knowledge, made) ==
    IF made THEN heap
    ELSE CHOOSE left \in
             {relive_partial_of(followed, G, Len(heap.cells) + 1, initial_knowledge) :
                 followed \in {follow_as_much_as_possible_of(heap, G, original_trace,
                                                             initial_knowledge)}} : TRUE

\* "decisions = list(reference.decision_trace)" and the walk of decisions
relive_exact_of(copied, G, initial_knowledge) ==
    simulate_and_create_loop_of(copied.heap, G, copied.heap.cells[copied.ref],
                                initial_knowledge)

\* ReliveOperator.execute(reference_id, initial_knowledge=K) on objects,
\* from the reference loop storage.get_loop returned on
relive_execute_of(heap, G, decision_trace, initial_knowledge) ==
    IF heap.cells[decision_trace] = <<>> THEN heap
    ELSE CHOOSE left \in
             {relive_after_exact_of(
                  walked, G, decision_trace, initial_knowledge,
                  simulate_loop(G, heap.cells[decision_trace],
                                value_of(heap, initial_knowledge), {}, FALSE,
                                NoDraws(heap.cells[decision_trace])).success) :
                 walked \in {relive_exact_of(copy(heap, decision_trace), G,
                                             initial_knowledge)}} : TRUE

\* the loop of _simulate_to_position on the state object self
RECURSIVE visit_all_of(_, _, _, _, _)
visit_all_of(heap, G, self, trace, i) ==
    IF i > Len(trace) THEN heap
    ELSE CHOOSE left \in
             {visit_all_of(visited, G, self, trace, i + 1) :
                 visited \in {IF has_node(G, trace[i])
                              THEN visit_node_of(heap, self, get_node(G, trace[i]))
                              ELSE heap}} : TRUE

\* self._simulate_to_position(new_trace[:pos], knowledge) on objects: the
\* slice is a new list, the state is made on a copy of knowledge and is the
\* last state object after the call
simulate_to_position_of(heap, G, trace, knowledge) ==
    visit_all_of(walk_state(copy(new(heap, trace), knowledge)), G, Len(heap.states) + 1,
                 trace, 1)

\* the loop of _complete_path on the state object self and the list
\* result: the objects every sequence of random choices can leave
RECURSIVE complete_steps_of(_, _, _, _, _)
complete_steps_of(heap, G, self, result, steps_left) ==
    IF steps_left = 0 \/ heap.states[self].is_dead THEN {heap}
    ELSE IF get_valid_choices(G, heap.states[self].current_node,
                              state_of(heap, self).knowledge,
                              state_of(heap, self).world_facts) = <<>>
    THEN {heap}
    ELSE UNION {UNION {complete_steps_of(visited, G, self, result, steps_left - 1) :
                           visited \in
                               {visit_node_of(list_append(heap, result, trans.to_node),
                                              self, get_node(G, trans.to_node))}} :
                trans \in {get_valid_choices(G, heap.states[self].current_node,
                                             state_of(heap, self).knowledge,
                                             state_of(heap, self).world_facts)[j] :
                           j \in 1..Len(get_valid_choices(G,
                                            heap.states[self].current_node,
                                            state_of(heap, self).knowledge,
                                            state_of(heap, self).world_facts))}}

\* "result = list(partial)" made, the loop of _complete_path
complete_path_copied(copied, G, self, max_steps) ==
    {[heap |-> left, result |-> copied.ref] :
        left \in complete_steps_of(copied.heap, G, self, copied.ref, max_steps)}

\* self._complete_path(new_trace[:pos + 1], state) on objects: the slice is
\* a new list and result a copy of it
complete_path_of(heap, G, partial, self, max_steps) ==
    complete_path_copied(copy(new(heap, partial), Len(heap.cells) + 1), G, self, max_steps)

RECURSIVE change_positions_of(_, _, _, _, _, _, _)

\* the loop body once _complete_path has returned: "new_trace = completed"
\* and the break, or the next position
change_completed_of(completed, G, trace, new_trace, positions, knowledge, max_steps) ==
    IF Len(completed.heap.cells[completed.result]) > Head(positions)
    THEN {[heap |-> completed.heap, new_trace |-> completed.result]}
    ELSE change_positions_of(completed.heap, G, trace, new_trace, Tail(positions),
                             knowledge, max_steps)

\* the loop body at the place Head(positions), self the state there:
\* "new_trace[pos] = random.choice(alternatives)" changes new_trace in place
change_at_of(heap, G, trace, new_trace, positions, knowledge, max_steps, self) ==
    IF alternatives(G, heap.cells[trace], heap.cells[new_trace], Head(positions),
                    state_of(heap, self)) = {}
    THEN change_positions_of(heap, G, trace, new_trace, Tail(positions), knowledge,
                             max_steps)
    ELSE UNION {UNION {change_completed_of(completed, G, trace, new_trace, positions,
                                           knowledge, max_steps) :
                       completed \in
                           complete_path_of(
                               [heap EXCEPT !.cells[new_trace][Head(positions)] = alt], G,
                               SubSeq([heap.cells[new_trace] EXCEPT ![Head(positions)] = alt],
                                      1, Head(positions)),
                               self, max_steps)} :
                alt \in alternatives(G, heap.cells[trace], heap.cells[new_trace],
                                     Head(positions), state_of(heap, self))}

\* the loop over the sorted change positions on the objects trace,
\* new_trace and knowledge: the objects it can leave and the list new_trace
\* names at the end
change_positions_of(heap, G, trace, new_trace, positions, knowledge, max_steps) ==
    IF positions = <<>> THEN {[heap |-> heap, new_trace |-> new_trace]}
    ELSE UNION {change_at_of(simulated, G, trace, new_trace, positions, knowledge,
                             max_steps, Len(heap.states) + 1) :
                simulated \in
                    {simulate_to_position_of(heap, G,
                         SubSeq(heap.cells[new_trace], 1, Head(positions) - 1),
                         knowledge)}}

\* "new_trace = list(trace)" made, the loop over the positions drawn
attempt_traces_copied(copied, G, trace, changes, knowledge, max_steps) ==
    UNION {change_positions_of(copied.heap, G, trace, copied.ref, sorted_positions(P),
                               knowledge, max_steps) :
           P \in {Q \in SUBSET (2..Len(copied.heap.cells[trace])) : Cardinality(Q) = changes}}

\* one attempt up to "if new_trace != trace"
attempt_traces_of(heap, G, trace, changes, knowledge, max_steps) ==
    attempt_traces_copied(copy(heap, trace), G, trace, changes, knowledge, max_steps)

RECURSIVE slightly_attempts_of(_, _, _, _, _, _, _, _, _)

\* an attempt from "if new_trace != trace" on: the walk of new_trace with
\* initial_knowledge, and the next attempt if it made no loop
slightly_made_of(heap, G, trace, new_trace, knowledge, initial_knowledge, changes, attempt, max_attempts, max_steps) ==
    IF ~is_changed(heap.cells[new_trace], heap.cells[trace])
    THEN slightly_attempts_of(heap, G, trace, knowledge, initial_knowledge, changes,
                              attempt + 1, max_attempts, max_steps)
    ELSE IF simulate_loop(G, heap.cells[new_trace], value_of(heap, initial_knowledge), {},
                          FALSE, NoDraws(heap.cells[new_trace])).success
    THEN {simulate_and_create_loop_of(heap, G, heap.cells[new_trace], initial_knowledge)}
    ELSE UNION {slightly_attempts_of(walked, G, trace, knowledge, initial_knowledge,
                                     changes, attempt + 1, max_attempts, max_steps) :
                walked \in {simulate_and_create_loop_of(heap, G, heap.cells[new_trace],
                                                        initial_knowledge)}}

\* the loop over the attempts: the objects execute can leave
slightly_attempts_of(heap, G, trace, knowledge, initial_knowledge, changes, attempt, max_attempts, max_steps) ==
    IF attempt > max_attempts THEN {heap}
    ELSE UNION {slightly_made_of(made.heap, G, trace, made.new_trace, knowledge,
                                 initial_knowledge, changes, attempt, max_attempts,
                                 max_steps) :
                made \in attempt_traces_of(heap, G, trace, changes, knowledge, max_steps)}

\* execute from the copy of initial_knowledge on
slightly_change_body_of(copied, G, trace, initial_knowledge, changes, max_attempts, max_steps) ==
    slightly_attempts_of(copied.heap, G, trace, copied.ref, initial_knowledge,
                         Min(changes, Len(copied.heap.cells[trace]) - 1), 1, max_attempts,
                         max_steps)

\* SlightlyChangeOperator.execute(reference_id, changes, initial_knowledge=K)
\* on objects, from the reference loop storage.get_loop returned on; trace
\* is the list reference.decision_trace itself
slightly_change_execute_of(heap, G, trace, initial_knowledge, changes, max_attempts, max_steps) ==
    IF Len(heap.cells[trace]) < 2 THEN {heap}
    ELSE slightly_change_body_of(copy_or_set(heap, initial_knowledge), G, trace,
                                 initial_knowledge, changes, max_attempts, max_steps)

RECURSIVE greatly_attempts_of(_, _, _, _, _, _, _, _, _)

\* an attempt after the walk of its decisions: _compute_trace_distance
\* makes the sets set(trace1) and set(trace2), and the loop ends at
\* min_distance
greatly_made_of(heap, G, trace, knowledge, initial_knowledge, walks, attempt, min_distance, max_attempts, made) ==
    IF ~made
    THEN greatly_attempts_of(heap, G, trace, knowledge, initial_knowledge, walks,
                             attempt + 1, min_distance, max_attempts)
    ELSE IF compute_trace_distance(heap.cells[trace], walks[attempt]) >= min_distance
    THEN new(new(heap, set(heap.cells[trace])), set(walks[attempt]))
    ELSE greatly_attempts_of(new(new(heap, set(heap.cells[trace])), set(walks[attempt])),
                             G, trace, knowledge, initial_knowledge, walks, attempt + 1,
                             min_distance, max_attempts)

\* the loop over the attempts on objects, walks[i] the random walk of
\* attempt i: _random_exploration(knowledge), then the walk of its decisions
\* with initial_knowledge
greatly_attempts_of(heap, G, trace, knowledge, initial_knowledge, walks, attempt, min_distance, max_attempts) ==
    IF attempt > max_attempts THEN heap
    ELSE IF walks[attempt] = <<>>
    THEN greatly_attempts_of(heap, G, trace, knowledge, initial_knowledge, walks,
                             attempt + 1, min_distance, max_attempts)
    ELSE CHOOSE left \in
             {greatly_made_of(
                  simulated, G, trace, knowledge, initial_knowledge, walks, attempt,
                  min_distance, max_attempts,
                  simulate_loop(G, walks[attempt], value_of(heap, initial_knowledge), {},
                                FALSE, NoDraws(walks[attempt])).success) :
                 simulated \in
                     {simulate_and_create_loop_of(walked, G, walks[attempt],
                                                  initial_knowledge) :
                         walked \in {walk_of(heap, G, knowledge, walks[attempt])}}} : TRUE

\* execute from the copy of initial_knowledge on
greatly_change_body_of(copied, G, trace, initial_knowledge, walks, min_distance, max_attempts) ==
    greatly_attempts_of(copied.heap, G, trace, copied.ref, initial_knowledge, walks, 1,
                        min_distance, max_attempts)

\* GreatlyChangeOperator.execute(reference_id, min_distance,
\* initial_knowledge=K) on objects, from the reference loop
\* storage.get_loop returned on; trace is reference.decision_trace itself
greatly_change_execute_of(heap, G, trace, initial_knowledge, walks, min_distance, max_attempts) ==
    greatly_change_body_of(copy_or_set(heap, initial_knowledge), G, trace,
                           initial_knowledge, walks, min_distance, max_attempts)

\* A caller holding a knowledge set and a fact set makes up to
\* MaxInvocations calls, one after the other, on one graph and one storage:
\* the searches with its two sets, the operators with its knowledge set or
\* with none.  given is what the caller held before the first call.  When a
\* call has returned the caller holds its two sets again and nothing else:
\* what is kept of the call is which it was, whether it made objects, and
\* for a reference loop what its decision_trace was read as and what it is.
MaxInvocations == 2

FrameTraces == {<<>>, <<"start", "a", "r">>, <<"a", "r", "d">>}

FrameDecisions == SeqsUpTo(NodeIds, 2) \cup FrameTraces \cup {<<"ghost">>}

FrameGraph == ScenarioGraph({"sr", "st", "dt", "rt1", "rt2"})

InitFrame ==
    /\ graph = FrameGraph
    /\ storage \in {LoopStorage(<<ReferenceLoop(trace)>>) : trace \in FrameTraces}
    /\ sim = NoSim /\ sim_prev = NoSim /\ choices = NoChoices /\ found = NoFound
    /\ opres = NoOp
    /\ \E K \in KnowledgeSets, F \in FactSets :
        objects = [given |-> [knowledge |-> K, world_state |-> F, graph |-> graph,
                              storage |-> storage]]
                  @@ new(new(NoObjects, K), F)

\* the objects the caller holds after a call: its knowledge and fact sets
held(heap) == [heap EXCEPT !.cells = SubSeq(@, 1, 2), !.states = <<>>]

\* the objects after a call, with the call noted
Invoked(heap, call) ==
    /\ objects.calls < MaxInvocations
    /\ objects' = [held(heap) EXCEPT !.calls = @ + 1,
                                    !.last = [made |-> Len(heap.cells) > 2] @@ call]
    /\ UNCHANGED <<graph, sim, sim_prev, choices, found, opres, storage>>

\* what is noted of a call without a reference loop
Call(op) == [op |-> op, self |-> 0, trace |-> <<>>, decision_trace |-> <<>>]

\* graph.simulate_loop(decisions, knowledge, world_state, probabilistic)
SimulateLoopOf ==
    \E decisions \in FrameDecisions, probabilistic \in BOOLEAN :
        \E draws \in (IF probabilistic THEN DrawLists(Len(decisions))
                      ELSE {[i \in 2..Len(decisions) |-> 0]}) :
            Invoked(simulate_loop_of(objects, graph, decisions, 1, 2, probabilistic, draws),
                    Call("simulate_loop"))

\* graph.find_paths(start, goal, knowledge, world_state, max_paths, max_depth)
FindPathsOf ==
    \E start \in {"start", "a", "ghost"}, goal \in Ids, max_paths \in {1, MaxPaths},
       max_depth \in {2, MaxDepth} :
        Invoked(find_paths_of(objects, graph, start, goal, 1, 2, max_paths, max_depth),
                Call("find_paths"))

\* graph.get_reachability_map(from_node, knowledge, world_state)
GetReachabilityMapOf ==
    \E from_node \in Ids :
        Invoked(get_reachability_map_of(objects, graph, from_node, 1, 2),
                Call("get_reachability_map"))

\* graph.get_valid_choices(current_node, knowledge, world_state): the two
\* sets are read and a new list is returned
GetValidChoicesOf ==
    \E current_node \in Ids :
        Invoked(new(objects, get_valid_choices(graph, current_node, objects.cells[1],
                                               objects.cells[2])),
                Call("get_valid_choices"))

\* CauseOperator(graph, storage).execute(target, initial_knowledge, save=False)
CauseExecuteOf ==
    \E target \in Ids, initial_knowledge \in {0, 1}, max_attempts \in 1..MaxAttempts :
        Invoked(cause_execute_of(objects, graph, target, initial_knowledge, max_attempts),
                Call("cause"))

\* AvoidOperator(graph, storage).execute(target, initial_knowledge, save=False)
AvoidExecuteOf ==
    \E target \in Ids, initial_knowledge \in {0, 1}, max_attempts \in 1..MaxAttempts,
       terminals \in Orders(terminal_nodes(graph)) :
        \E walks \in (IF avoid_falls_back(graph, target,
                                          value_of(objects, initial_knowledge),
                                          max_attempts, terminals)
                      THEN [1..max_attempts ->
                               random_walk_avoiding(graph, get_start_node(graph).id, target,
                                   value_of(objects, initial_knowledge), MaxSteps)]
                      ELSE {<<>>}) :
            Invoked(avoid_execute_of(objects, graph, target, initial_knowledge,
                                     max_attempts, terminals, walks),
                    Call("avoid"))

\* TriggerOperator(graph, storage).execute(sequence, initial_knowledge, save=False)
TriggerExecuteOf ==
    \E sequence \in FrameDecisions, initial_knowledge \in {0, 1} :
        Invoked(trigger_execute_of(objects, graph, sequence, initial_knowledge),
                Call("trigger"))

\* "reference = self.storage.get_loop(reference_id)": the loop is made from
\* its row, its decision_trace is a new list
reference_of(heap, store, reference_id) ==
    new(heap, get_loop(store, reference_id)[1].decision_trace)

\* what is noted of a call with a reference loop: what get_loop read into
\* its decision_trace and what the list holds when the call has returned
ReferenceCall(op, reference_id, heap) ==
    [op |-> op, self |-> 0, trace |-> get_loop(storage, reference_id)[1].decision_trace,
     decision_trace |-> heap.cells[Len(objects.cells) + 1]]

\* after a call with a reference loop
ReferenceInvoked(op, reference_id, heap) ==
    Invoked(heap, ReferenceCall(op, reference_id, heap))

\* ReliveOperator(graph, storage).execute(reference_id, initial_knowledge, save=False)
ReliveExecuteOf ==
    \E reference_id \in 1..Len(storage.loops), initial_knowledge \in {0, 1} :
        ReferenceInvoked("relive", reference_id,
            relive_execute_of(reference_of(objects, storage, reference_id), graph,
                              Len(objects.cells) + 1, initial_knowledge))

\* SlightlyChangeOperator(graph, storage).execute(reference_id, changes,
\*                                                initial_knowledge, save=False)
SlightlyChangeExecuteOf ==
    \E reference_id \in 1..Len(storage.loops), initial_knowledge \in {0, 1},
       changes \in 1..MaxChanges, max_attempts \in 1..MaxAttempts :
        \E left \in slightly_change_execute_of(
                        reference_of(objects, storage, reference_id), graph,
                        Len(objects.cells) + 1, initial_knowledge, changes, max_attempts,
                        MaxSteps) :
            ReferenceInvoked("slightly_change", reference_id, left)

\* GreatlyChangeOperator(graph, storage).execute(reference_id, min_distance,
\*                                               initial_knowledge, save=False)
GreatlyChangeExecuteOf ==
    \E reference_id \in 1..Len(storage.loops), initial_knowledge \in {0, 1},
       min_distance \in {0, MaxDistance}, max_attempts \in 1..MaxAttempts :
        \E walks \in [1..max_attempts ->
                         random_exploration(graph, value_of(objects, initial_knowledge),
                                            MaxSteps)] :
            ReferenceInvoked("greatly_change", reference_id,
                greatly_change_execute_of(
                    reference_of(objects, storage, reference_id), graph,
                    Len(objects.cells) + 1, initial_knowledge, walks, min_distance,
                    max_attempts))

NextFrame ==
    \/ SimulateLoopOf
    \/ FindPathsOf
    \/ GetReachabilityMapOf
    \/ GetValidChoicesOf
    \/ CauseExecuteOf
    \/ AvoidExecuteOf
    \/ TriggerExecuteOf
    \/ ReliveExecuteOf
    \/ SlightlyChangeExecuteOf
    \/ GreatlyChangeExecuteOf

SpecFrame == InitFrame /\ [][NextFrame]_vars

(* What the walk of a decision list is, stated on the transition list      *)
(***************************************************************************)

\* the first transition of the transition list from u to v, if there is one
HasEdge(G, u, v) ==
    \E j \in 1..Len(G.transitions) :
        G.transitions[j].from_node = u /\ G.transitions[j].to_node = v

FirstEdge(G, u, v) ==
    G.transitions[CHOOSE j \in 1..Len(G.transitions) :
        /\ G.transitions[j].from_node = u /\ G.transitions[j].to_node = v
        /\ \A k \in 1..(j - 1) :
              ~(G.transitions[k].from_node = u /\ G.transitions[k].to_node = v)]

\* knowledge and facts after the effects of decisions[1..n], from K and W
RECURSIVE EffectsAlong(_, _, _, _, _)
EffectsAlong(G, decisions, n, K, W) ==
    IF n = 0 THEN <<K, W>>
    ELSE LET before == EffectsAlong(G, decisions, n - 1, K, W) IN
         IF has_node(G, decisions[n])
         THEN apply_effects(get_node(G, decisions[n]), before[1], before[2])
         ELSE before

\* decision i cannot be taken in the state the walk of decisions[1..i-1] leaves
StepIllegal(G, decisions, i, K, W) ==
    LET kw == EffectsAlong(G, decisions, i - 1, K, W) IN
    \/ ~has_node(G, decisions[i])
    \/ i > 1 /\ ~HasEdge(G, decisions[i - 1], decisions[i])
    \/ i > 1 /\ ~can_traverse(FirstEdge(G, decisions[i - 1], decisions[i]), kw[1], kw[2])
    \/ ~can_enter(get_node(G, decisions[i]), kw[1], kw[2])

\* the walk arrives at decision i: every decision before it was legal and
\* none of them was a death node
Arrives(G, decisions, i, K, W) ==
    \A j \in 1..(i - 1) :
        /\ ~StepIllegal(G, decisions, j, K, W)
        /\ ~is_death(get_node(G, decisions[j]))

IsPrefix(p, q) == Len(p) <= Len(q) /\ p = SubSeq(q, 1, Len(p))

(***************************************************************************)
(* Claims about simulate_loop (SpecSim)                                    *)
(***************************************************************************)

\* C1: in deterministic mode, at the first decision the walk arrives at whose
\* node id is unknown, or that has no edge from the previous decision, or whose
\* edge conditions or node preconditions are unmet in the current state, the
\* walk stops with success = false, terminated_early = true and an error
\* message; decision_trace is exactly the decisions before that step and the
\* final state holds the effects of those decisions only.
C1_StopsAtFirstIllegalStep ==
    (sim.called /\ ~sim.probabilistic) =>
        \A i \in 1..Len(sim.decisions) :
            (/\ Arrives(graph, sim.decisions, i, sim.initial_knowledge, sim.initial_world)
             /\ StepIllegal(graph, sim.decisions, i, sim.initial_knowledge, sim.initial_world))
            => /\ sim.result.success = FALSE
               /\ sim.result.terminated_early = TRUE
               /\ sim.result.error_message # NoMessage
               /\ sim.result.decision_trace = SubSeq(sim.decisions, 1, i - 1)
               /\ sim.result.final_state.visited_nodes = SubSeq(sim.decisions, 1, i - 1)
               /\ <<sim.result.final_state.knowledge, sim.result.final_state.world_facts>>
                    = EffectsAlong(graph, sim.decisions, i - 1,
                                   sim.initial_knowledge, sim.initial_world)

\* a deterministic walk stopped at its third decision by an unmet edge condition
C1_Witness ==
    /\ sim.called /\ ~sim.probabilistic
    /\ sim.result.success = FALSE
    /\ Len(sim.result.decision_trace) = 2
    /\ Len(sim.decisions) = 3
    /\ sim.result.error_message[1] = "Conditions not met"

\* C2: when the walk visits a death node it stops there: the death node is the
\* last element of decision_trace, result.death_node and final_state.death_node
\* name it, final_state.is_dead is true, and the result has success = true.
C2_DeathStopsWalk ==
    sim.called =>
        \A i \in 1..Len(sim.result.decision_trace) :
            is_death(get_node(graph, sim.result.decision_trace[i])) =>
                /\ i = Len(sim.result.decision_trace)
                /\ sim.result.death_node = sim.result.decision_trace[i]
                /\ sim.result.final_state.is_dead = TRUE
                /\ sim.result.final_state.death_node = sim.result.decision_trace[i]
                /\ sim.result.success = TRUE
                /\ sim.result.terminated_early = FALSE

\* a walk that died on its second decision although the third decision was a
\* node with an edge from the death node
C2_Witness ==
    /\ sim.called
    /\ sim.result.death_node = "d"
    /\ Len(sim.result.decision_trace) = 2
    /\ Len(sim.decisions) = 3
    /\ HasEdge(graph, "d", sim.decisions[3])

\* C3: two calls with probabilistic = false on the same graph with the same
\* decisions, knowledge and facts give the same success, decision_trace,
\* outcome_hash and knowledge_id, whatever the random draws and the
\* probabilities of the edges.
C3_Deterministic ==
    (sim.called /\ sim_prev.called /\ ~sim.probabilistic) =>
        /\ sim.result.success = sim_prev.result.success
        /\ sim.result.decision_trace = sim_prev.result.decision_trace
        /\ sim.result.outcome_hash = sim_prev.result.outcome_hash
        /\ sim.result.knowledge_id = sim_prev.result.knowledge_id

\* a deterministic call made twice that went over the edge a -> d of probability 0
C3_Witness ==
    /\ sim.called /\ sim_prev.called /\ ~sim.probabilistic
    /\ sim.result.decision_trace = <<"start", "a", "d">>
    /\ FirstEdge(graph, "a", "d").probability = 0

RollFailed(r) == r.error_message # NoMessage /\ r.error_message[1] = "Probability roll failed"

\* C4: a failed roll ends the walk as an unmet condition does (success = false,
\* terminated_early = true, trace = the decisions visited so far), and only on
\* an edge of probability below 1 whose conditions hold; in probabilistic mode
\* no edge of probability 0 is ever traversed; in deterministic mode no roll
\* fails.
C4_RollFailure ==
    sim.called =>
        LET r == sim.result
            n == Len(r.decision_trace)
        IN
        /\ RollFailed(r) =>
            /\ sim.probabilistic
            /\ r.success = FALSE /\ r.terminated_early = TRUE
            /\ n >= 1 /\ n < Len(sim.decisions)
            /\ r.decision_trace = SubSeq(sim.decisions, 1, n)
            /\ r.final_state.visited_nodes = r.decision_trace
            /\ HasEdge(graph, sim.decisions[n], sim.decisions[n + 1])
            /\ FirstEdge(graph, sim.decisions[n], sim.decisions[n + 1]).probability < 100
            /\ can_traverse(FirstEdge(graph, sim.decisions[n], sim.decisions[n + 1]),
                            r.final_state.knowledge, r.final_state.world_facts)
        /\ sim.probabilistic =>
            \A i \in 2..n :
                FirstEdge(graph, r.decision_trace[i - 1], r.decision_trace[i]).probability > 0
        /\ (~sim.probabilistic /\ ~r.success) =>
            StepIllegal(graph, sim.decisions, n + 1, sim.initial_knowledge, sim.initial_world)

\* a probabilistic walk whose roll failed on its second edge
C4_Witness ==
    /\ sim.called /\ sim.probabilistic
    /\ RollFailed(sim.result)
    /\ Len(sim.result.decision_trace) = 2

(***************************************************************************)
(* Claims about get_valid_choices and find_paths (SpecQuery)               *)
(***************************************************************************)

\* C5: get_valid_choices(node, knowledge, facts) returns exactly the
\* transitions of the transition list that leave node, in list order, whose
\* conditions hold and whose target exists and can be entered with the given
\* knowledge and facts.
C5_ValidChoicesExact ==
    choices.called =>
        choices.result =
            SelectSeq(graph.transitions,
                LAMBDA t :
                    /\ t.from_node = choices.current_node
                    /\ can_traverse(t, choices.knowledge, choices.world_state)
                    /\ has_node(graph, t.to_node)
                    /\ can_enter(get_node(graph, t.to_node),
                                 choices.knowledge, choices.world_state))

\* a call on a node with three outgoing transitions of which one is refused by
\* its own condition and one by its target's precondition
C5_Witness ==
    /\ choices.called
    /\ choices.current_node = "r"
    /\ Len(get_transitions_from(graph, "r")) = 3
    /\ Len(choices.result) = 1
    /\ choices.result[1].to_node = "d"

NoDuplicates(q) == \A i, j \in 1..Len(q) : q[i] = q[j] => i = j

\* C6: every path find_paths returns contains no node twice, also on graphs
\* with a cycle and a self-loop.
C6_PathsAcyclic ==
    found.called =>
        \A i \in 1..Len(found.result) : NoDuplicates(found.result[i])

\* a search that went round the cycle t -> start and past the self-loop a -> a
C6_Witness ==
    /\ found.called
    /\ found.start = "a" /\ found.goal = "start"
    /\ HasEdge(graph, "a", "a")
    /\ Len(found.result) >= 1

(***************************************************************************)
(* Claims about the operators                                              *)
(***************************************************************************)

\* C7: if CauseOperator.execute(target) returns success = true, the target is
\* an element of result.decisions and result.loop is not null.
C7_CausePostcondition ==
    (opres.called /\ opres.op = "cause" /\ opres.result.success) =>
        /\ InSeq(opres.target[1], opres.result.decisions)
        /\ opres.result.loop # <<>>

\* a successful cause of the node t, reached through the revelation
C7_Witness ==
    /\ opres.called /\ opres.op = "cause" /\ opres.result.success
    /\ opres.target = <<"t">>
    /\ InSeq("r", opres.result.decisions)

\* the knowledge bootstrap found a path that the simulation from the caller's
\* knowledge refuses: no loop, no success
CauseBootstrapFails ==
    /\ opres.called /\ opres.op = "cause"
    /\ opres.result.message = <<"Simulation failed">>

\* C8: if AvoidOperator.execute(target) returns success = true, the target is
\* not an element of result.decisions, whether the path comes from find_paths
\* to a terminal node or from the random-walk fallback.
C8_AvoidPostcondition ==
    (opres.called /\ opres.op = "avoid" /\ opres.result.success) =>
        /\ ~InSeq(opres.target[1], opres.result.decisions)
        /\ opres.result.loop # <<>>
        /\ ~InSeq(opres.target[1], opres.result.loop[1].decision_trace)

\* a success of the random-walk fallback, on a node that some random walk
\* of the same call could have entered
C8_Witness ==
    /\ opres.called /\ opres.op = "avoid" /\ opres.result.success
    /\ opres.fallback
    /\ \E w \in random_walk_avoiding(graph, "start", opres.target[1],
                                     opres.initial_knowledge, MaxSteps) :
          InSeq(opres.target[1], w)

\* a success on a path find_paths found to a terminal node
AvoidByFindPaths ==
    /\ opres.called /\ opres.op = "avoid" /\ opres.result.success
    /\ ~opres.fallback
    /\ opres.target = <<"a">>

(***************************************************************************)
(* Trigger.                                                                *)
(***************************************************************************)

\* positions of the checkpoints on a path: non-decreasing, and two
\* checkpoints share a position only if they are the same node
InOrder(sequence, path) ==
    \E pos \in [1..Len(sequence) -> 1..Len(path)] :
        /\ \A i \in 1..Len(sequence) : path[pos[i]] = sequence[i]
        /\ \A i \in 1..(Len(sequence) - 1) : pos[i] <= pos[i + 1]

TriggerCalled == opres.called /\ opres.op = "trigger"

\* the call stopped at a checkpoint it could not reach
TriggerStopped ==
    /\ TriggerCalled
    /\ opres.result.message # <<>>
    /\ opres.result.message[1] = "Cannot reach"

\* C9: if TriggerOperator.execute(sequence) returns success = true, every
\* checkpoint occurs in result.decisions, the checkpoints occur in the order
\* given, result.decisions begins with the start node, and the deterministic
\* simulation of result.decisions succeeded.
C9_TriggerPostcondition ==
    (TriggerCalled /\ opres.result.success) =>
        LET r == opres.result IN
        /\ \A i \in 1..Len(opres.target) : InSeq(opres.target[i], r.decisions)
        /\ InOrder(opres.target, r.decisions)
        /\ r.decisions[1] = get_start_node(graph).id
        /\ r.simulation # <<>>
        /\ r.simulation[1] = simulate_loop(graph, r.decisions, opres.initial_knowledge,
                                           {}, FALSE, NoDraws(r.decisions))
        /\ r.simulation[1].success
        /\ r.simulation[1].error_message = NoMessage
        /\ r.loop # <<>>
        /\ IsPrefix(r.loop[1].decision_trace, r.decisions)

\* a success on three distinct checkpoints, the first not the start node
C9_Witness ==
    /\ TriggerCalled /\ opres.result.success
    /\ Len(opres.target) = 3
    /\ NoDuplicates(opres.target)
    /\ opres.target[1] # "start"

\* a success whose walk died before the last checkpoint: the walk that stops
\* at a death node is a successful one
TriggerSucceedsPastDeath ==
    /\ TriggerCalled /\ opres.result.success
    /\ Len(opres.result.loop[1].decision_trace) < Len(opres.result.decisions)

\* every checkpoint is on the path, but the walk of the path is refused
TriggerPathRefused ==
    /\ TriggerCalled /\ ~opres.result.success
    /\ opres.result.message = <<"Sequence triggered">>

\* C10 as stated: whenever a checkpoint cannot be reached, the result has
\* success = false, partial_success = true, no loop, and result.decisions is
\* the path built up to the last checkpoint reached.
C10_AlwaysPartial ==
    TriggerStopped =>
        /\ ~opres.result.success
        /\ opres.result.partial_success
        /\ opres.result.loop = <<>>

\* C10: whenever a checkpoint cannot be reached, the result has
\* success = false, no loop and no simulation, result.decisions is the path
\* built up to the last checkpoint reached (the start node alone if the
\* first checkpoint is not reached), and partial_success is true exactly
\* when that path has more than one node.
C10_PartialIffPathBuilt ==
    TriggerStopped =>
        LET r == opres.result
            checkpoint == r.message[2]
            current == r.message[3]
            start == get_start_node(graph).id
        IN
        /\ ~r.success
        /\ r.loop = <<>>
        /\ r.simulation = <<>>
        /\ r.partial_success <=> Len(r.decisions) > 1
        /\ r.decisions # <<>>
        /\ r.decisions[1] = start
        /\ r.decisions[Len(r.decisions)] = current
        /\ \A i \in 2..Len(r.decisions) : HasEdge(graph, r.decisions[i - 1], r.decisions[i])
        /\ \E k \in 1..Len(opres.target) :
              /\ opres.target[k] = checkpoint
              /\ current = IF k = 1 THEN start ELSE opres.target[k - 1]
              /\ InOrder(SubSeq(opres.target, 1, k - 1), r.decisions)

\* a stop after the second checkpoint, with the path to it reported
C10_Witness ==
    /\ TriggerStopped
    /\ opres.result.partial_success
    /\ Len(opres.result.decisions) = 3
    /\ Len(opres.target) = 3
    /\ opres.target[3] = opres.result.message[2]

\* a stop at the first checkpoint: partial_success is false
TriggerStoppedAtFirst ==
    /\ TriggerStopped
    /\ ~opres.result.partial_success
    /\ opres.result.decisions = <<"start">>

(***************************************************************************)
(* Relive, SlightlyChange, GreatlyChange.                                  *)
(***************************************************************************)

ReliveCalled == opres.called /\ opres.op = "relive"

\* the reference loop of the call, as it was in storage
Reference == get_loop(opres.stored, opres.target[1])

\* the call found its reference loop
ReferenceFound == opres.stored.attached /\ Reference # <<>>

\* the walk of the reference trace from the knowledge of the call
ReferenceWalk ==
    simulate_loop(graph, Reference[1].decision_trace, opres.initial_knowledge, {},
                  FALSE, NoDraws(Reference[1].decision_trace))

\* C11 as stated: if the reference loop's decision_trace simulates
\* successfully from the given initial knowledge, Relive returns success =
\* true, partial_success = false, result.decisions equal to the reference
\* decision_trace and a loop tagged 'relive'.
C11_ReliveReplays ==
    (ReliveCalled /\ ReferenceFound /\ ReferenceWalk.success) =>
        /\ opres.result.success
        /\ ~opres.result.partial_success
        /\ opres.result.decisions = Reference[1].decision_trace
        /\ opres.result.loop # <<>>
        /\ InSeq("relive", opres.result.loop[1].tags)

\* C11: if the reference loop's decision_trace is not empty and simulates
\* successfully from the given initial knowledge, Relive returns success =
\* true, partial_success = false, result.decisions equal to the reference
\* decision_trace and a loop tagged 'relive' whose trace is the walked one;
\* for an empty decision_trace it returns success = false and no loop.
C11_ReliveReplaysNonEmpty ==
    (ReliveCalled /\ ReferenceFound /\ ReferenceWalk.success) =>
        IF Reference[1].decision_trace = <<>>
        THEN /\ ~opres.result.success
             /\ opres.result.loop = <<>>
             /\ opres.result.message = <<"Reference loop has no decision trace">>
        ELSE /\ opres.result.success
             /\ ~opres.result.partial_success
             /\ opres.result.decisions = Reference[1].decision_trace
             /\ opres.result.loop # <<>>
             /\ InSeq("relive", opres.result.loop[1].tags)
             /\ ~InSeq("relive_partial", opres.result.loop[1].tags)
             /\ opres.result.loop[1].decision_trace = ReferenceWalk.decision_trace
             /\ opres.result.simulation = <<ReferenceWalk>>

\* a replay of a three-node reference trace
C11_Witness ==
    /\ ReliveCalled /\ ReferenceFound /\ ReferenceWalk.success
    /\ Len(Reference[1].decision_trace) = 3
    /\ opres.result.success
    /\ InSeq("relive", opres.result.loop[1].tags)

\* a reference with an empty trace: its walk succeeds, the replay does not
ReliveEmptyTrace ==
    /\ ReliveCalled /\ ReferenceFound /\ ReferenceWalk.success
    /\ ~opres.result.success

\* the exact trace is refused and a part of it is walked instead
RelivePartial ==
    /\ ReliveCalled /\ opres.result.success /\ opres.result.partial_success

SlightlyChangeCalled == opres.called /\ opres.op = "slightly_change"

\* C12: if SlightlyChange returns success = true, result.decisions differs
\* from the reference decision_trace and so does the returned loop's
\* decision_trace.
C12_SlightlyChangeDiffers ==
    (SlightlyChangeCalled /\ opres.result.success) =>
        /\ ReferenceFound
        /\ opres.result.decisions # Reference[1].decision_trace
        /\ opres.result.loop # <<>>
        /\ opres.result.loop[1].decision_trace # Reference[1].decision_trace
        /\ InSeq("slightly_changed", opres.result.loop[1].tags)

\* a success whose loop stops at a death node before the end of the new
\* trace, on a reference that is itself a walk of the graph
C12_Witness ==
    /\ SlightlyChangeCalled /\ opres.result.success
    /\ ReferenceWalk.success
    /\ Len(Reference[1].decision_trace) = 3
    /\ Len(opres.result.loop[1].decision_trace) < Len(opres.result.decisions)

GreatlyChangeCalled == opres.called /\ opres.op = "greatly_change"

\* the size of the symmetric difference of the node sets of two traces
NodeSetDistance(p, q) ==
    Cardinality({n \in Ids : InSeq(n, p) # InSeq(n, q)})

\* the distance of result.decisions from the reference trace
ResultDistance == NodeSetDistance(opres.result.decisions, Reference[1].decision_trace)

GreatlyChangeSucceeds ==
    /\ GreatlyChangeCalled /\ opres.result.success /\ opres.min_distance = 3

\* attempt i of the call was made and its walk simulates successfully
WalkSimulated(i) ==
    /\ i \in 1..Len(opres.walks)
    /\ \A j \in 1..(i - 1) :
          ~ /\ simulate_loop(graph, opres.walks[j], opres.initial_knowledge, {}, FALSE,
                             NoDraws(opres.walks[j])).success
            /\ NodeSetDistance(opres.walks[j], Reference[1].decision_trace)
                  >= opres.min_distance
    /\ simulate_loop(graph, opres.walks[i], opres.initial_knowledge, {}, FALSE,
                     NoDraws(opres.walks[i])).success

\* C14 as stated: whenever at least one of the random walks simulates
\* successfully, GreatlyChange returns a loop (the candidate of greatest
\* distance among the attempts made) with success = (distance >=
\* min_distance); it returns no loop only when no walk could be simulated.
C14_BestEffortLoop ==
    (GreatlyChangeCalled /\ ReferenceFound) =>
        /\ (\E i \in 1..Len(opres.walks) : WalkSimulated(i)) =>
              /\ opres.result.loop # <<>>
              /\ \A i \in 1..Len(opres.walks) : WalkSimulated(i) =>
                    NodeSetDistance(opres.walks[i], Reference[1].decision_trace)
                        <= ResultDistance
              /\ opres.result.success <=> ResultDistance >= opres.min_distance
        /\ opres.result.loop = <<>> => \A i \in 1..Len(opres.walks) : ~WalkSimulated(i)

\* every walk that simulates has the node set of the reference: no loop
GreatlyChangeDropsCandidate ==
    /\ GreatlyChangeCalled /\ ReferenceFound
    /\ \E i \in 1..Len(opres.walks) : WalkSimulated(i)
    /\ opres.result.loop = <<>>

(***************************************************************************)
(* Operators constructed without storage.                                  *)
(***************************************************************************)

\* a call of Relive, SlightlyChange or GreatlyChange
ReferenceOperatorCalled ==
    opres.called /\ opres.op \in {"relive", "slightly_change", "greatly_change"}

\* C15: ReliveOperator, SlightlyChangeOperator and GreatlyChangeOperator
\* constructed without storage fail at once, whatever the graph and the
\* reference id: success is false, the message is the one naming the storage,
\* loop and simulation are None, no decision and no attempt is reported, and
\* nothing is stored.
C15_NoStorageFails ==
    (ReferenceOperatorCalled /\ ~opres.stored.attached) =>
        /\ ~opres.result.success
        /\ opres.result.message = <<"No storage available to retrieve reference loop">>
        /\ opres.result.loop = <<>>
        /\ opres.result.simulation = <<>>
        /\ opres.result.decisions = <<>>
        /\ opres.result.attempts = 1
        /\ storage = opres.stored

\* Relive called without storage on a graph with no start node, for an id no
\* storage of the model holds
C15_Witness ==
    /\ opres.called /\ opres.op = "relive"
    /\ ~opres.stored.attached
    /\ ~has_start_node(graph)
    /\ opres.target = <<MaxLoops + 1>>
    /\ ~opres.result.success

\* with a storage attached the same calls get past the check
DetachedContrast ==
    /\ ReferenceOperatorCalled
    /\ opres.stored.attached
    /\ opres.result.message # <<"No storage available to retrieve reference loop">>

(***************************************************************************)
(* Structural errors of Cause, Avoid and Trigger.                          *)
(***************************************************************************)

PathOperatorCalled == opres.called /\ opres.op \in {"cause", "avoid", "trigger"}

\* the call is one of the structural errors: no start node, a target that is
\* no node, an empty sequence or a sequence with an id that is no node
StructuralError ==
    \/ ~has_start_node(graph)
    \/ opres.op \in {"cause", "avoid"} /\ ~has_node(graph, opres.target[1])
    \/ /\ opres.op = "trigger"
       /\ \/ opres.target = <<>>
          \/ \E i \in 1..Len(opres.target) : ~has_node(graph, opres.target[i])

FailedResult ==
    /\ ~opres.result.success
    /\ opres.result.message # <<>>
    /\ opres.result.loop = <<>>
    /\ storage = opres.stored

\* C16: Cause or Avoid given a target id that is not a node of the graph,
\* Trigger given an empty sequence or a sequence with an id that is not a
\* node, and Cause, Avoid or Trigger run on a graph with no start node return
\* success=false with a non-empty message and loop=None, and store nothing.
C16_StructuralErrorsFail == (PathOperatorCalled /\ StructuralError) => FailedResult

\* Avoid given an id that is no node reports that the target was avoided and
\* stores the loop it made
AvoidUnknownTargetSucceeds ==
    /\ opres.called /\ opres.op = "avoid"
    /\ has_start_node(graph)
    /\ ~has_node(graph, opres.target[1])
    /\ opres.result.success
    /\ opres.result.message = <<"Target avoided">>
    /\ opres.result.loop # <<>>
    /\ opres.persist
    /\ storage = create_loop(opres.stored, opres.result.loop[1])

\* the structural errors the operators do check for
StructuralErrorsChecked ==
    (/\ PathOperatorCalled /\ StructuralError
     /\ ~(opres.op = "avoid" /\ has_start_node(graph))) => FailedResult

(***************************************************************************)
(* The adjacency caches.                                                   *)
(***************************************************************************)

transitions_from(n) == SelectSeq(graph.transitions, LAMBDA t : t.from_node = n)
transitions_to(n) == SelectSeq(graph.transitions, LAMBDA t : t.to_node = n)

\* C17: after any sequence of add_node, remove_node, add_transition and
\* remove_transition calls, for every node n get_transitions_from(n) is
\* exactly the transitions with from_node = n and get_transitions_to(n)
\* exactly those with to_node = n.
C17_CachesAgree ==
    \A n \in EditIds :
        /\ get_transitions_from(graph, n) = transitions_from(n)
        /\ get_transitions_to(graph, n) = transitions_to(n)

\* a node added again after its transitions: the graph still lists them, in
\* the list and in the cache of the node at the other end, and the node's own
\* caches are empty
AddNodeEmptiesCache ==
    /\ has_node(graph, "start") /\ has_node(graph, "a")
    /\ transitions_from("start") = <<Transition("start", "a", <<>>, 100)>>
    /\ get_transitions_to(graph, "a") = transitions_from("start")
    /\ get_transitions_from(graph, "start") = <<>>

\* what does hold after any sequence of the four calls: every transition in
\* a cache is in the transition list, with that node at that end
CachesHoldWhatIsListed ==
    \A n \in EditIds :
        /\ \A i \in 1..Len(get_transitions_from(graph, n)) :
               InSeq(get_transitions_from(graph, n)[i], transitions_from(n))
        /\ \A i \in 1..Len(get_transitions_to(graph, n)) :
               InSeq(get_transitions_to(graph, n)[i], transitions_to(n))

(***************************************************************************)
(* The loops of the shared helper.                                         *)
(***************************************************************************)

HelperMadeLoop == opres.called /\ opres.op = "helper" /\ opres.loop # <<>>

\* the walk ended on a death node of the graph
EndedOnDeath(trace) ==
    /\ trace # <<>>
    /\ has_node(graph, trace[Len(trace)])
    /\ is_death(get_node(graph, trace[Len(trace)]))

\* C18: a Loop created by the operators' shared helper carries the tag
\* 'death' exactly when its simulation ended on a death node, 'short_loop'
\* exactly when its decision_trace has fewer than 4 nodes, 'terminated_early'
\* exactly when its simulation terminated early; its outcome_hash,
\* knowledge_id and decision_trace are those of the simulation result, which
\* is the deterministic walk of the decisions.
C18_HelperLoop ==
    HelperMadeLoop =>
        /\ opres.simulation =
               simulate_loop(graph, opres.decisions, opres.initial_knowledge, {}, FALSE,
                             NoDraws(opres.decisions))
        /\ InSeq("death", opres.loop[1].tags) <=> EndedOnDeath(opres.simulation.decision_trace)
        /\ InSeq("death", opres.loop[1].tags) <=> (opres.simulation.death_node # None)
        /\ InSeq("short_loop", opres.loop[1].tags) <=> (Len(opres.loop[1].decision_trace) < 4)
        /\ InSeq("terminated_early", opres.loop[1].tags) <=> opres.simulation.terminated_early
        /\ \A i \in 1..Len(opres.loop[1].tags) :
               opres.loop[1].tags[i] \in {"death", "short_loop", "terminated_early"}
        /\ opres.loop[1].outcome_hash = opres.simulation.outcome_hash
        /\ opres.loop[1].knowledge_id = opres.simulation.knowledge_id
        /\ opres.loop[1].decision_trace = opres.simulation.decision_trace
        /\ storage = persist(opres.stored, opres.persist, opres.loop)

\* a loop of four nodes that ends on a death node: 'death' without 'short_loop'
C18_Witness ==
    /\ HelperMadeLoop
    /\ Len(opres.loop[1].decision_trace) = 4
    /\ opres.loop[1].tags = <<"death">>
    /\ storage.loops = opres.loop

\* the helper makes no loop of a walk that terminated early
HelperFailedWalk ==
    /\ opres.called /\ opres.op = "helper"
    /\ opres.simulation.terminated_early
    /\ opres.loop = <<>>
    /\ storage = opres.stored

\* a short loop that does not end in death
HelperShortLoop ==
    /\ HelperMadeLoop
    /\ opres.loop[1].tags = <<"short_loop">>

(***************************************************************************)
(* The hashes and the order of their sets.                                 *)
(***************************************************************************)

HashesComputed == opres.called /\ opres.op \in {"compute_outcome_hash", "compute_knowledge_id"}

\* set(order)
elements(order) == {order[i] : i \in 1..Len(order)}

\* C19: compute_outcome_hash and compute_knowledge_id depend only on the
\* contents of their set arguments (and ending_type), not on the order in
\* which the sets are iterated: two calls whose arguments are equal as sets
\* return the same hash, the one of the sorted contents.
C19_HashOfContents ==
    HashesComputed =>
        /\ \A i \in 1..3 : elements(opres.first[i]) = elements(opres.second[i])
        /\ opres.hashes[1] = opres.hashes[2]
        /\ opres.op = "compute_outcome_hash" =>
               opres.hashes[1] = compute_outcome_hash(elements(opres.first[1]),
                                     elements(opres.first[2]), elements(opres.first[3]),
                                     opres.ending_type)
        /\ opres.op = "compute_knowledge_id" =>
               opres.hashes[1] = compute_knowledge_id(elements(opres.first[1]),
                                     elements(opres.first[2]), elements(opres.first[3]))

\* three survivors iterated in opposite orders, neither of them sorted
C19_Witness ==
    /\ opres.called /\ opres.op = "compute_outcome_hash"
    /\ opres.first[1] = <<<<"SISTER">>, <<"VILLAIN">>, <<"PROTAGONIST">>>>
    /\ opres.second[1] = <<<<"PROTAGONIST">>, <<"VILLAIN">>, <<"SISTER">>>>
    /\ opres.hashes[1].survivors = <<<<"PROTAGONIST">>, <<"SISTER">>, <<"VILLAIN">>>>
    /\ opres.hashes[2] = opres.hashes[1]

(***************************************************************************)
(* Decision vectors.                                                       *)
(***************************************************************************)

Decoded == opres.called /\ opres.op = "encode_decode"

\* the flags set to true
made(decision_flags) ==
    {decision_flags[i][1] : i \in {j \in 1..Len(decision_flags) : decision_flags[j][2]}}

\* no two names of the map have the same bit position
injective(decision_map) ==
    \A i, j \in 1..Len(decision_map) : decision_map[i][2] = decision_map[j][2] => i = j

\* C20 as stated: for any decision_map and any assignment of booleans to
\* named flags, decode_decisions(encode_decisions(flags, decision_map),
\* decision_map) is the sorted list of the flags set to true (the flags
\* being names of the map).
C20_RoundTrip ==
    (Decoded /\ keys(opres.decision_flags) \subseteq keys(opres.decision_map)) =>
        opres.decoded = sorted(made(opres.decision_flags))

\* C20, for the maps and flags it holds for: if no two names of decision_map
\* share a bit position and every flag set to true is a name of decision_map,
\* decode_decisions(encode_decisions(flags, decision_map), decision_map) is
\* the sorted list of the flags set to true.
C20_RoundTripInjective ==
    (/\ Decoded
     /\ injective(opres.decision_map)
     /\ made(opres.decision_flags) \subseteq keys(opres.decision_map)) =>
        opres.decoded = sorted(made(opres.decision_flags))

\* the flags of the test on a map whose bit order is not the sorted order of
\* the names: two made, one not
C20_Witness ==
    /\ Decoded
    /\ opres.decision_map =
           <<<<<<"SAVE_SISTER">>, 0>>, <<<<"GO_BANK">>, 2>>, <<<<"CHASE_VILLAIN">>, 1>>>>
    /\ made(opres.decision_flags) = {<<"GO_BANK">>, <<"SAVE_SISTER">>}
    /\ Len(opres.decision_flags) = 3
    /\ opres.encoded = 5
    /\ opres.decoded = <<<<"GO_BANK">>, <<"SAVE_SISTER">>>>

\* two names on one bit: the name decoded is the one the map lists last,
\* whether or not it was made
DecodedNotMade ==
    /\ Decoded
    /\ made(opres.decision_flags) \subseteq keys(opres.decision_map)
    /\ \E i \in 1..Len(opres.decoded) : opres.decoded[i] \notin made(opres.decision_flags)

\* a flag made that the map does not name is lost
MadeNotDecoded ==
    /\ Decoded
    /\ injective(opres.decision_map)
    /\ \E name \in made(opres.decision_flags) : ~InSeq(name, opres.decoded)

(***************************************************************************)
(* Decision vectors: mutation and distance.                                *)
(***************************************************************************)

Mutated == opres.called /\ opres.op = "mutate_vector"

\* the bit positions in which two vectors of the model differ
differing(vec1, vec2) == {i \in 0..MaxWidth : bit_of(vec1, i) # bit_of(vec2, i)}

\* C21 as stated: mutate_vector(v, n, max_bits) differs from v in exactly n
\* bit positions, all of them below max_bits.
C21_FlipsExactlyN ==
    Mutated =>
        /\ Cardinality(differing(opres.vec, opres.mutated)) = opres.n_flips
        /\ \A i \in differing(opres.vec, opres.mutated) : i < opres.max_bits

\* C21, with the count the code flips: for a vector v >= 0, n >= 0 and
\* max_bits >= 0, mutate_vector(v, n, max_bits) differs from v in exactly
\* min(n, max_bits) bit positions, all of them below max_bits, whichever
\* positions are drawn; hamming_distance(v, result) is that count.
C21_FlipsMinOfNAndWidth ==
    Mutated =>
        /\ Cardinality(differing(opres.vec, opres.mutated)) = Min(opres.n_flips, opres.max_bits)
        /\ hamming_distance(opres.vec, opres.mutated) = Min(opres.n_flips, opres.max_bits)
        /\ \A i \in differing(opres.vec, opres.mutated) : i < opres.max_bits
        /\ differing(opres.vec, opres.mutated) =
               {opres.bits_to_flip[i] : i \in 1..Len(opres.bits_to_flip)}

\* two of three low bits flipped, one of them set before, in a vector whose
\* high bit is set
C21_Witness ==
    /\ Mutated
    /\ opres.vec = 9 /\ opres.n_flips = 2 /\ opres.max_bits = 3
    /\ opres.bits_to_flip = <<1, 0>>
    /\ opres.mutated = 10

\* more flips asked for than the width has positions: every position below
\* max_bits is flipped and no other
MutateClamped ==
    /\ Mutated
    /\ opres.n_flips > opres.max_bits
    /\ differing(opres.vec, opres.mutated) = 0..(opres.max_bits - 1)

Compared == opres.called /\ opres.op = "hamming_distance"

\* C22: for non-negative vectors a and b of bounded width,
\* hamming_distance(a, a) = 0, hamming_distance(a, b) = hamming_distance(b, a)
\* and hamming_distance(a, b) is the number of bit positions in which a and b
\* differ (the 1 bits of a XOR b).
C22_HammingDistance ==
    Compared =>
        /\ opres.self = 0
        /\ opres.distance = opres.reversed
        /\ opres.distance = Cardinality(differing(opres.vec1, opres.vec2))
        /\ \A i \in 0..MaxWidth :
               bit_of(xor(opres.vec1, opres.vec2), i) = 1 <=> i \in differing(opres.vec1, opres.vec2)

\* the vectors of the test: 0b1010 and 0b0101 differ in four bits
C22_Witness ==
    /\ Compared
    /\ opres.vec1 = 10 /\ opres.vec2 = 5
    /\ opres.distance = 4

(***************************************************************************)
(* apply_effects: purity and idempotence.                                  *)
(***************************************************************************)

EffectsCalled == opres.called /\ opres.op = "apply_effects"

\* C23: apply_effects is pure and idempotent for every effect list: the set
\* objects passed in are left as they were (and are not the objects
\* returned), the sets returned are those of the effects applied in order,
\* and applying the effects to the sets returned gives the same sets again.
C23_PureAndIdempotent ==
    EffectsCalled =>
        /\ \A ref \in 1..Len(opres.before.cells) :
               opres.after.cells[ref] = opres.before.cells[ref]
        /\ {opres.new_knowledge, opres.new_world} \cap 1..Len(opres.before.cells) = {}
        /\ opres.new_knowledge # opres.new_world
        /\ <<opres.after.cells[opres.new_knowledge], opres.after.cells[opres.new_world]>> =
               apply_effect_list(opres.effects, opres.before.cells[opres.knowledge],
                                 opres.before.cells[opres.world_state])
        /\ opres.after.cells[opres.again_knowledge] = opres.after.cells[opres.new_knowledge]
        /\ opres.after.cells[opres.again_world] = opres.after.cells[opres.new_world]

\* a fact set and unset and a fact learnt, on sets that had neither: the
\* output differs from the input and the input is as it was
C23_Witness ==
    /\ EffectsCalled
    /\ opres.effects = <<<<"UNSET", "y">>, <<"LEARN", "x">>, <<"y">>>>
    /\ opres.before.cells = <<{}, {<<"x">>}>>
    /\ opres.knowledge = 1 /\ opres.world_state = 2
    /\ opres.after.cells[opres.new_knowledge] = {<<"x">>}
    /\ opres.after.cells[opres.new_world] = {<<"x">>, <<"y">>}
    /\ opres.after.cells[opres.again_world] = {<<"x">>, <<"y">>}

(***************************************************************************)
(* copy_state.                                                             *)
(***************************************************************************)

\* C24: a WorldState obtained with copy_state() shares no mutable state with
\* the original: the copy has the fields of the original, and after it every
\* visit_node call and every set or list mutation on one of the two states
\* leaves the knowledge, world_facts, visited_nodes, current_node and death
\* fields (all the fields) of the other as they were.
C24_CopySharesNothing ==
    [][/\ objects'.last.op = "copy_state" =>
              state_of(objects', 2) = state_of(objects, 1)
       /\ \A other \in 1..Len(objects.states) :
              (objects'.last.op = "copy_state" \/ other # objects'.last.self) =>
                  state_of(objects', other) = state_of(objects, other)]_vars

\* the original was visited at the death node after the copy was made and
\* then had a fact added: the copy is still as it was made
C24_Witness ==
    /\ Len(objects.states) = 2
    /\ objects.last = [op |-> "knowledge.add", self |-> 1]
    /\ state_of(objects, 1).is_dead
    /\ state_of(objects, 1).knowledge = {<<"x">>}
    /\ state_of(objects, 2).visited_nodes = <<>>
    /\ state_of(objects, 2).knowledge = {}
    /\ ~state_of(objects, 2).is_dead

\* visit_node on objects is visit_node on values
VisitIsVisit ==
    [][objects'.last.op = "visit_node" =>
          \E node \in VisitedNodes :
              state_of(objects', objects'.last.self) =
                  visit_node(state_of(objects, objects'.last.self), node)]_vars

(***************************************************************************)
(* validate.                                                               *)
(***************************************************************************)

Validated == opres.called /\ opres.op = "validate"

\* how many times a diagnostic is in the list returned
times(error) == Cardinality({i \in 1..Len(opres.errors) : opres.errors[i] = error})

\* the places of the transition list with an edge from one node to another
edges(from_node, to_node) ==
    {i \in 1..Len(graph.transitions) :
        /\ graph.transitions[i].from_node = from_node
        /\ graph.transitions[i].to_node = to_node}

slot(node_id) == get_node(graph, node_id).time_slot

\* what the list is to hold, read off the nodes and the transition list
NoStartExpected == IF \A i \in 1..Len(graph.nodes) : graph.nodes[i].time_slot # 0 THEN 1 ELSE 0

OrphanExpected(n) ==
    IF /\ ~(has_start_node(graph) /\ n = get_start_node(graph).id)
       /\ \A m \in node_ids(graph) : edges(m, n) = {}
    THEN 1 ELSE 0

ReversalExpected(m, n) == IF slot(n) < slot(m) THEN Cardinality(edges(m, n)) ELSE 0

DeadEndExpected(n) ==
    IF /\ ~is_death(get_node(graph, n))
       /\ \A m \in node_ids(graph) : edges(n, m) = {}
       /\ slot(n) < default_total_time_slots - 1
    THEN 1 ELSE 0

DiagnosticsAsListed ==
    /\ times(<<"No start node (time_slot=0)">>) = NoStartExpected
    /\ \A n \in node_ids(graph) :
        /\ times(<<"Orphaned node with no incoming edges", n>>) = OrphanExpected(n)
        /\ times(<<"Dead end (non-death node with no exits)", n>>) = DeadEndExpected(n)
        /\ \A m \in node_ids(graph) :
               times(<<"Time reversal", m, slot(m), n, slot(n)>>) = ReversalExpected(m, n)
    /\ Len(opres.errors) =
           NoStartExpected
           + Cardinality({n \in node_ids(graph) : OrphanExpected(n) = 1})
           + Cardinality({n \in node_ids(graph) : DeadEndExpected(n) = 1})
           + Cardinality({i \in 1..Len(graph.transitions) :
                             slot(graph.transitions[i].to_node)
                                 < slot(graph.transitions[i].from_node)})

\* C25: on any graph the list validate returns holds a diagnostic for the
\* missing start node exactly when no node has time_slot 0, one for each
\* non-start node with no incoming edge, one for each edge whose target
\* time_slot is lower than its source time_slot, one for each non-death node
\* with no outgoing edge whose time_slot is below total_time_slots - 1, and
\* nothing else.
C25_Diagnostics == Validated => DiagnosticsAsListed

\* the adjacency caches hold the transitions of the list
CachesAgree ==
    \A n \in node_ids(graph) :
        /\ get_transitions_from(graph, n) = SelectSeq(graph.transitions, LAMBDA t : t.from_node = n)
        /\ get_transitions_to(graph, n) = SelectSeq(graph.transitions, LAMBDA t : t.to_node = n)

\* on the graphs whose caches agree with the transition list the list is as
\* the claim says
DiagnosticsOfAgreeingCaches == (Validated /\ CachesAgree) => DiagnosticsAsListed

\* a node added a second time is reported as orphaned although the
\* transition list has an edge to it
OrphanWithIncomingEdge ==
    /\ Validated
    /\ \E n \in node_ids(graph) :
        /\ times(<<"Orphaned node with no incoming edges", n>>) = 1
        /\ \E m \in node_ids(graph) : edges(m, n) # {}

\* graphs with no start node, and the empty graph, are validated
ValidatedNoStart ==
    /\ Validated
    /\ ~has_start_node(graph)
    /\ graph.nodes # <<>>
    /\ opres.errors[1] = <<"No start node (time_slot=0)">>
    /\ Len(opres.errors) > 1

(***************************************************************************)
(* find_paths: what it returns.                                            *)
(***************************************************************************)

\* the lists of distinct node ids
SimpleLists ==
    {q \in SeqsUpTo(NodeIds, Cardinality(NodeIds)) : \A i, j \in 1..Len(q) : q[i] = q[j] => i = j}

\* the transition list has an edge u -> v whose conditions hold and whose
\* target can be entered with kw
StepAllowed(u, v, kw) ==
    \E i \in 1..Len(graph.transitions) :
        /\ graph.transitions[i].from_node = u
        /\ graph.transitions[i].to_node = v
        /\ can_traverse(graph.transitions[i], kw[1], kw[2])
        /\ can_enter(get_node(graph, v), kw[1], kw[2])

\* the simple paths from start to goal of at most max_depth nodes every step
\* of which is allowed in the state the nodes before it leave
LegalPaths(start, goal, K, F, max_depth) ==
    {p \in SimpleLists :
        /\ p # <<>> /\ Len(p) <= max_depth
        /\ p[1] = start /\ p[Len(p)] = goal
        /\ \A i \in 1..Len(p) : has_node(graph, p[i])
        /\ \A i \in 1..(Len(p) - 1) : StepAllowed(p[i], p[i + 1], EffectsAlong(graph, p, i, K, F))}

Returned == {found.result[i] : i \in 1..Len(found.result)}

\* C26: when find_paths returns fewer than max_paths paths, the set of the
\* paths it returns is exactly the set of the simple paths from start to goal
\* with at most max_depth nodes in which every step u -> v has an edge whose
\* conditions hold and whose target can be entered in the state given by the
\* effects of all nodes of the path before v: none is missed, no other is
\* returned.
C26_AllLegalPaths ==
    (found.called /\ Len(found.result) < found.max_paths) =>
        Returned = LegalPaths(found.start, found.goal, found.knowledge, found.world_state,
                              found.max_depth)

\* two paths found to t with knowledge of x, the one through r by the second
\* of the parallel edges, where the limit was three
C26_Witness ==
    /\ found.called
    /\ found.start = "start" /\ found.goal = "t" /\ found.max_paths = 3
    /\ found.knowledge = {<<"x">>} /\ found.max_depth = 4
    /\ Returned = {<<"start", "t">>, <<"start", "a", "r", "t">>}
    /\ Len(get_transitions_from(graph, "r")) = 3

\* C27: find_paths returns at most max_paths paths, each starting with
\* start, ending with goal and having at most max_depth nodes; it returns the
\* empty list when start or goal is not a node of the graph or when no legal
\* path leads to the goal.
C27_PathsBounded ==
    found.called =>
        /\ Len(found.result) <= found.max_paths
        /\ \A i \in 1..Len(found.result) :
            /\ found.result[i] # <<>>
            /\ found.result[i][1] = found.start
            /\ found.result[i][Len(found.result[i])] = found.goal
            /\ Len(found.result[i]) <= found.max_depth
        /\ (~has_node(graph, found.start) \/ ~has_node(graph, found.goal)) =>
               found.result = <<>>
        /\ LegalPaths(found.start, found.goal, found.knowledge, found.world_state,
                      Cardinality(NodeIds)) = {} => found.result = <<>>

\* the search stopped at max_paths with legal paths left over
C27_Witness ==
    /\ found.called
    /\ found.max_paths = 2 /\ Len(found.result) = 2
    /\ found.max_depth = 4
    /\ Cardinality(LegalPaths(found.start, found.goal, found.knowledge, found.world_state,
                              found.max_depth)) > 2

\* the goal is a node and no legal path leads to it
GoalUnreachable ==
    /\ found.called
    /\ has_node(graph, found.start) /\ has_node(graph, found.goal)
    /\ found.max_depth = default_max_depth
    /\ found.result = <<>>

(***************************************************************************)
(* C28  Search and simulation                                              *)
(***************************************************************************)

FoundSimulated == found.called /\ sim.called

Replayed == sim.result.success /\ sim.result.decision_trace = sim.decisions

ParallelEdges(u, v) ==
    Len(SelectSeq(graph.transitions,
                  LAMBDA t : t.from_node = u /\ t.to_node = v)) > 1

\* C28: every path find_paths returns simulates with success, in
\* deterministic mode from the same knowledge and facts, and the decision
\* trace of the simulation is the path.
C28_SearchAgreesWithSimulation == FoundSimulated => Replayed

\* a returned path that goes on after a death node: the simulation stops there
C28_StopsAtDeath ==
    /\ FoundSimulated
    /\ sim.result.success
    /\ sim.result.death_node # None
    /\ Len(sim.result.decision_trace) < Len(sim.decisions)

\* a returned path over the second of two parallel edges: the simulation
\* reads the first one only
FirstEdgeRefused ==
    /\ FoundSimulated
    /\ ~sim.result.success
    /\ \E i \in 1..(Len(sim.decisions) - 1) :
        ParallelEdges(sim.decisions[i], sim.decisions[i + 1])
    /\ sim.result.error_message[1] = "Conditions not met"

\* a returned path whose start node cannot be entered
StartRefused ==
    /\ FoundSimulated
    /\ ~sim.result.success
    /\ sim.result.decision_trace = <<>>
    /\ sim.result.error_message[1] = "Cannot enter"

\* on a graph with one edge a pair, no edge out of a death node inside the
\* path and a start node that can be entered, the simulation replays the path
SearchAgreesOnPlainPaths ==
    (/\ FoundSimulated
     /\ \A i \in 1..(Len(sim.decisions) - 1) :
           /\ ~ParallelEdges(sim.decisions[i], sim.decisions[i + 1])
           /\ get_node(graph, sim.decisions[i]).node_type # "death"
     /\ can_enter(get_node(graph, sim.decisions[1]), found.knowledge, found.world_state))
    => Replayed

(***************************************************************************)
(* C29  Choice legality                                                    *)
(***************************************************************************)

Decided == choices.called /\ "accepted" \in DOMAIN choices

Offered(G, u, v, K, W) ==
    LET valid == get_valid_choices(G, u, K, W)
    IN \E i \in 1..Len(valid) : valid[i].to_node = v

\* the knowledge and facts find_paths holds when it reads the transitions of u
AfterEffects(G, u, K, W) ==
    IF has_node(G, u) THEN apply_effects(get_node(G, u), K, W) ELSE <<K, W>>

SimulateAsOffered ==
    choices.accepted <=> Offered(graph, choices.current_node, choices.to_node,
                                 choices.knowledge, choices.world_state)

ExtendAsOffered ==
    choices.to_node # choices.current_node =>
        LET kw == AfterEffects(graph, choices.current_node, choices.knowledge,
                               choices.world_state)
        IN choices.extended <=> Offered(graph, choices.current_node, choices.to_node,
                                        kw[1], kw[2])

\* C29: in deterministic mode simulate_loop accepts the step from u to v with
\* knowledge K and facts F exactly when get_valid_choices(u, K, F) holds a
\* transition to v, and find_paths extends a path from u to an unvisited v
\* exactly under that condition.
C29_LegalityDecidedAlike == Decided => (SimulateAsOffered /\ ExtendAsOffered)

\* get_valid_choices offers a transition to v that simulate_loop refuses
C29_OfferedButRefused ==
    /\ Decided
    /\ ~choices.accepted
    /\ Offered(graph, choices.current_node, choices.to_node,
               choices.knowledge, choices.world_state)
    /\ ParallelEdges(choices.current_node, choices.to_node)

\* find_paths extends exactly to the nodes get_valid_choices offers
FindPathsExtendsAsOffered == Decided => ExtendAsOffered

\* with one edge between the two nodes simulate_loop accepts what is offered
SimulateAsOfferedOnSingleEdges ==
    (Decided /\ ~ParallelEdges(choices.current_node, choices.to_node))
        => SimulateAsOffered

\* simulate_loop accepts nothing get_valid_choices does not offer
AcceptedIsOffered ==
    (Decided /\ choices.accepted)
        => Offered(graph, choices.current_node, choices.to_node,
                   choices.knowledge, choices.world_state)

(***************************************************************************)
(* C30  The decisions an operator reports                                  *)
(***************************************************************************)

LoopReturned == opres.called /\ opres.result.loop # <<>>

Joined(G, u, v) ==
    \E i \in 1..Len(G.transitions) :
        G.transitions[i].from_node = u /\ G.transitions[i].to_node = v

\* C30: whenever one of the six operators returns a loop, the decision trace
\* of the loop is result.decisions, and every consecutive pair of
\* result.decisions is joined by a transition of the graph.
C30_DecisionsAreTheWalk ==
    LoopReturned =>
        LET r == opres.result IN
        /\ r.loop[1].decision_trace = r.decisions
        /\ \A i \in 1..(Len(r.decisions) - 1) :
              Joined(graph, r.decisions[i], r.decisions[i + 1])

\* a loop whose walk stopped at a death node before the end of the decisions
\* the result reports
C30_ReportsUnwalkedDecisions ==
    /\ LoopReturned
    /\ opres.result.success
    /\ Len(opres.result.loop[1].decision_trace) < Len(opres.result.decisions)
    /\ get_node(graph, opres.result.loop[1].decision_trace[
                           Len(opres.result.loop[1].decision_trace)]).node_type = "death"

\* the walk of the loop is always a beginning of the decisions reported
LoopWalksABeginning ==
    LoopReturned => IsPrefix(opres.result.loop[1].decision_trace, opres.result.decisions)

\* SlightlyChange reports decisions with a pair of nodes no transition joins
C30_ReportsUnjoinedDecisions ==
    /\ LoopReturned
    /\ opres.op = "slightly_change"
    /\ \E i \in 1..(Len(opres.result.decisions) - 1) :
          ~Joined(graph, opres.result.decisions[i], opres.result.decisions[i + 1])

DecisionsWalked(op) ==
    (LoopReturned /\ opres.op = op)
        => opres.result.loop[1].decision_trace = opres.result.decisions

CauseDecisionsWalked == DecisionsWalked("cause")
AvoidDecisionsWalked == DecisionsWalked("avoid")
TriggerDecisionsWalked == DecisionsWalked("trigger")
ReliveDecisionsWalked == DecisionsWalked("relive")
SlightlyChangeDecisionsWalked == DecisionsWalked("slightly_change")
GreatlyChangeDecisionsWalked == DecisionsWalked("greatly_change")

(***************************************************************************)
(* C31  What every simulation result satisfies                             *)
(***************************************************************************)

\* C31: for every call of simulate_loop, decision_trace is a prefix of the
\* decisions given, final_state.visited_nodes is decision_trace, success is
\* false exactly when terminated_early is true, and a success with no
\* death_node has walked the whole decision list.
C31_ResultInvariants ==
    sim.called =>
        LET r == sim.result IN
        /\ IsPrefix(r.decision_trace, sim.decisions)
        /\ r.final_state.visited_nodes = r.decision_trace
        /\ (~r.success <=> r.terminated_early)
        /\ (r.success /\ r.death_node = None => r.decision_trace = sim.decisions)

\* a walk of three decisions that is refused after two visits, in
\* probabilistic mode
C31_Witness ==
    /\ sim.called
    /\ sim.probabilistic
    /\ Len(sim.decisions) = 3
    /\ ~sim.result.success
    /\ Len(sim.result.final_state.visited_nodes) = 2

\* a success with no death that walked three decisions
WholeListWalked ==
    /\ sim.called
    /\ sim.result.success
    /\ sim.result.death_node = None
    /\ Len(sim.result.decision_trace) = 3

(***************************************************************************)
(* C32  The reachability map                                               *)
(***************************************************************************)

Mapped == found.called /\ "reachable" \in DOMAIN found

ReachableNodes ==
    {n \in Ids : is_reachable(graph, found.start, n, found.knowledge, found.world_state)}

\* C32: a node is in get_reachability_map(start, K, F) exactly when
\* is_reachable(start, n, K, F) holds.
C32_MapIsReachableSet == Mapped => found.reachable = ReachableNodes

\* a node that is_reachable reaches and the map does not hold
C32_ReachableNotMapped ==
    /\ Mapped
    /\ \E n \in ReachableNodes : n \notin found.reachable

\* every node of the map is reachable
MappedIsReachable == Mapped => found.reachable \subseteq ReachableNodes

\* the map of a node the graph does not have is empty, and the map of a node
\* it has holds that node
MapHoldsStart ==
    Mapped => IF has_node(graph, found.start) THEN found.start \in found.reachable
              ELSE found.reachable = {}

(***************************************************************************)
(* C33  Choke points                                                       *)
(***************************************************************************)

ChokePointsFound == found.called /\ "choke_points" \in DOMAIN found

\* the nodes a walk over the transition list reaches from the start node
\* without passing through the excluded nodes
RECURSIVE Closure(_, _, _)
Closure(G, excluded, reached) ==
    LET more == {G.transitions[i].to_node : i \in
                    {j \in 1..Len(G.transitions) :
                        G.transitions[j].from_node \in reached}} \ excluded
    IN IF more \subseteq reached THEN reached
       ELSE Closure(G, excluded, reached \cup more)

ReachableFromStart(G, excluded) ==
    IF ~has_start_node(G) \/ get_start_node(G).id \in excluded THEN {}
    ELSE Closure(G, excluded, {get_start_node(G).id})

DeathIds(G) == {G.nodes[i].id : i \in {j \in 1..Len(G.nodes) : is_death(G.nodes[j])}}

\* the critical nodes whose exclusion takes a death node out of reach
ChokeExpected(G) ==
    {G.nodes[i].id : i \in
        {j \in 1..Len(G.nodes) :
            /\ is_critical(G.nodes[j])
            /\ (DeathIds(G) \cap ReachableFromStart(G, {}))
                   \ ReachableFromStart(G, {G.nodes[j].id}) # {}}}

\* C33: find_choke_points returns exactly the critical nodes whose exclusion
\* changes which death nodes are reachable from the start node.
C33_ChokePointsExact ==
    ChokePointsFound => set(found.choke_points) = ChokeExpected(graph)

\* a node is returned although every death node reachable from the start
\* node is reachable without it
C33_ReturnedWithoutBlocking ==
    /\ ChokePointsFound
    /\ has_start_node(graph)
    /\ \E c \in set(found.choke_points) :
          /\ c # get_start_node(graph).id
          /\ (DeathIds(graph) \cap ReachableFromStart(graph, {}))
                 \subseteq ReachableFromStart(graph, {c})

\* every node whose exclusion takes a death node out of reach is returned,
\* and every node returned is critical
ChokePointsReturned ==
    ChokePointsFound =>
        /\ ChokeExpected(graph) \subseteq set(found.choke_points)
        /\ \A c \in set(found.choke_points) : is_critical(get_node(graph, c))

\* when every death node is reachable from the start node, the nodes
\* returned are the ones the spec describes
ChokePointsExactWhenDeathsReachable ==
    (ChokePointsFound /\ DeathIds(graph) \subseteq ReachableFromStart(graph, {}))
        => set(found.choke_points) = ChokeExpected(graph)

(***************************************************************************)
(* C34  The state Trigger searches with                                    *)
(***************************************************************************)

Stitched == opres.called /\ "calls" \in DOMAIN opres

\* the state simulate_loop holds after it walked the path stitched so far
ArrivedAt(call) ==
    simulate_loop(graph, call.full_path, opres.initial_knowledge, {}, FALSE,
                  NoDraws(call.full_path))

WalksTo(call) == ArrivedAt(call).decision_trace = call.full_path

\* the state simulate_loop holds before it visits the last node of the path
BeforeLast(call) ==
    simulate_loop(graph, SubSeq(call.full_path, 1, Len(call.full_path) - 1),
                  opres.initial_knowledge, {}, FALSE, NoDraws(call.full_path)).final_state

\* C34: the knowledge and world facts Trigger passes to find_paths for the
\* segment leaving a checkpoint are the knowledge and world facts
\* simulate_loop holds on arriving at that checkpoint along the path
\* stitched so far from the caller's initial knowledge.
C34_SearchStateCurrent ==
    Stitched =>
        \A i \in 1..Len(opres.calls) :
            WalksTo(opres.calls[i]) =>
                /\ opres.calls[i].knowledge = ArrivedAt(opres.calls[i]).final_state.knowledge
                /\ opres.calls[i].world_state = ArrivedAt(opres.calls[i]).final_state.world_facts

\* a segment searched with no world facts although the walk holds one, set
\* by a node before the checkpoint
C34_FactsNotPassed ==
    /\ Stitched
    /\ \E i \in 1..Len(opres.calls) :
          /\ WalksTo(opres.calls[i])
          /\ Len(opres.calls[i].full_path) > 1
          /\ BeforeLast(opres.calls[i]).world_facts # {}
          /\ ArrivedAt(opres.calls[i]).final_state.world_facts # {}
          /\ opres.calls[i].world_state = {}

\* the first segment searched without the knowledge the start node teaches
StartEffectsNotPassed ==
    /\ Stitched
    /\ \E i \in 1..Len(opres.calls) :
          /\ WalksTo(opres.calls[i])
          /\ opres.calls[i].full_path = <<get_start_node(graph).id>>
          /\ opres.calls[i].knowledge # ArrivedAt(opres.calls[i]).final_state.knowledge

\* when the start node has no effects, the knowledge passed is the knowledge
\* of the walk
KnowledgeCurrentWithPlainStart ==
    (Stitched /\ get_start_node(graph).effects = <<>>) =>
        \A i \in 1..Len(opres.calls) :
            WalksTo(opres.calls[i]) =>
                opres.calls[i].knowledge = ArrivedAt(opres.calls[i]).final_state.knowledge

(***************************************************************************)
(* C35  The partial relive                                                 *)
(***************************************************************************)

\* the verbatim replay made no loop and the trace was followed step by step
ReplayFailed ==
    /\ ReliveCalled
    /\ opres.result.message = <<"Partial relive - original path no longer valid">>

\* the step from the last node of the prefix to next is a legal choice in
\* the state the walk of the prefix reaches from the knowledge of the call
LegalAfter(prefix, next) ==
    LET kw == EffectsAlong(graph, prefix, Len(prefix), opres.initial_knowledge, {})
    IN Offered(graph, prefix[Len(prefix)], next, kw[1], kw[2])

StopsBeforeFirstIllegalStep(decisions, trace) ==
    /\ IsPrefix(decisions, trace)
    /\ decisions # <<>>
    /\ \A i \in 1..(Len(decisions) - 1) :
          LegalAfter(SubSeq(decisions, 1, i), decisions[i + 1])
    /\ Len(decisions) < Len(trace) => ~LegalAfter(decisions, trace[Len(decisions) + 1])

\* C35: when the verbatim replay fails, result.decisions is the prefix of
\* the reference trace that stops exactly before the first step that is not
\* a legal choice in the state reached by walking the prefix, partial_success
\* is true exactly when the prefix is shorter than the reference trace, and
\* a loop returned is tagged 'relive_partial'.
C35_PartialRelive ==
    ReplayFailed =>
        /\ StopsBeforeFirstIllegalStep(opres.result.decisions, Reference[1].decision_trace)
        /\ opres.result.partial_success
               <=> Len(opres.result.decisions) < Len(Reference[1].decision_trace)
        /\ opres.result.loop # <<>> => InSeq("relive_partial", opres.result.loop[1].tags)

\* the whole trace is followed although one of its steps is not a legal
\* choice in the state of the walk
C35_FollowsIllegalStep ==
    /\ ReplayFailed
    /\ opres.result.decisions = Reference[1].decision_trace
    /\ \E i \in 1..(Len(opres.result.decisions) - 1) :
          /\ HasEdge(graph, opres.result.decisions[i], opres.result.decisions[i + 1])
          /\ ~LegalAfter(SubSeq(opres.result.decisions, 1, i), opres.result.decisions[i + 1])

\* what is followed is legal in the state of the walk with the world facts
\* left out, and the rest of the claim holds
LegalWithoutFacts(prefix, next) ==
    LET kw == EffectsAlong(graph, prefix, Len(prefix), opres.initial_knowledge, {})
    IN Offered(graph, prefix[Len(prefix)], next, kw[1], {})

PartialReliveWithoutFacts ==
    ReplayFailed =>
        LET decisions == opres.result.decisions
            trace == Reference[1].decision_trace
        IN
        /\ IsPrefix(decisions, trace)
        /\ decisions # <<>>
        /\ \A i \in 1..(Len(decisions) - 1) :
              LegalWithoutFacts(SubSeq(decisions, 1, i), decisions[i + 1])
        /\ Len(decisions) < Len(trace) => ~LegalWithoutFacts(decisions, trace[Len(decisions) + 1])
        /\ opres.result.partial_success <=> Len(decisions) < Len(trace)
        /\ opres.result.loop # <<>> => InSeq("relive_partial", opres.result.loop[1].tags)

(***************************************************************************)
(* C36  Termination                                                        *)
(***************************************************************************)

Returns == found.called /\ ~found.running

\* attempts made and steps walked stay within max_attempts and max_steps
WithinBounds ==
    (found.called /\ found.kind = "greatly_change") =>
        /\ found.attempt <= found.max_attempts
        /\ found.steps <= found.max_steps
        /\ Len(found.decisions) <= found.max_steps + 1

LoopsGiveResults ==
    Returns =>
        /\ found.kind = "find_paths" =>
              found.paths = find_paths(graph, found.start, found.goal, found.knowledge,
                                       found.world_state, found.max_paths, found.max_depth)
        /\ found.kind = "get_reachability_map" =>
              found.visited = get_reachability_map(graph, found.start, found.knowledge,
                                                   found.world_state)

\* find_paths returned from a graph with a cycle after it found paths
FindPathsReturnsOnCycle ==
    /\ Returns /\ found.kind = "find_paths"
    /\ Joined(graph, "t", "start")
    /\ Len(found.paths) > 1

(***************************************************************************)
(* C37  What an execute call persists                                      *)
(***************************************************************************)

\* save=true was passed to an operator that has a storage
SaveAsked ==
    IF "save" \in DOMAIN opres THEN opres.save /\ opres.stored.attached
    ELSE opres.persist

\* the loops the call added to storage
Added == SubSeq(storage.loops, Len(opres.stored.loops) + 1, Len(storage.loops))

SameLoop(stored_loop, loop) == [stored_loop EXCEPT !.tags = <<>>] = [loop EXCEPT !.tags = <<>>]

\* C37: one execute call persists at most one loop, the one returned in
\* result.loop, and nothing when save=false, when the operator has no
\* storage, or when result.loop is null.
C37_PersistsReturnedLoop ==
    opres.called =>
        /\ storage.attached = opres.stored.attached
        /\ IsPrefix(opres.stored.loops, storage.loops)
        /\ Len(Added) <= 1
        /\ Added # <<>> => /\ opres.result.loop # <<>>
                           /\ SameLoop(Added[1], opres.result.loop[1])
        /\ (~SaveAsked \/ opres.result.loop = <<>>) => Added = <<>>
        /\ (SaveAsked /\ opres.result.loop # <<>>) => Len(Added) = 1

\* GreatlyChange simulated two candidates and persisted the one it returned
C37_Witness ==
    /\ opres.called /\ opres.op = "greatly_change"
    /\ opres.result.attempts = 2
    /\ opres.result.loop # <<>>
    /\ Len(Added) = 1
    /\ opres.stored.loops # <<>>

\* a loop is returned and not persisted, save being false
ReturnedNotPersisted ==
    /\ opres.called /\ opres.stored.attached
    /\ opres.result.loop # <<>>
    /\ Added = <<>>

(***************************************************************************)
(* C38  The tags of the stored loop                                        *)
(***************************************************************************)

\* C38: when an operator persists a loop, the loop in storage carries the
\* tags of the loop returned to the caller, the operator's own tag too.
C38_StoredTagsAreReturnedTags ==
    (opres.called /\ Added # <<>>) => Added[1].tags = opres.result.loop[1].tags

\* Relive returned a loop tagged 'relive' and the stored loop has no such tag
C38_StoredWithoutOwnTag ==
    /\ opres.called /\ opres.op = "relive"
    /\ Added # <<>>
    /\ InSeq("relive", opres.result.loop[1].tags)
    /\ ~InSeq("relive", Added[1].tags)

\* the same of SlightlyChange and of the partial relive
SlightlyChangeStoredWithoutOwnTag ==
    /\ opres.called /\ Added # <<>>
    /\ \/ /\ InSeq("slightly_changed", opres.result.loop[1].tags)
          /\ ~InSeq("slightly_changed", Added[1].tags)
       \/ /\ InSeq("relive_partial", opres.result.loop[1].tags)
          /\ ~InSeq("relive_partial", Added[1].tags)

\* the operators that tag before they persist, or do not tag, store the tags
\* they return; the others store the returned tags but their own
StoredTagsButOwnTag ==
    (opres.called /\ Added # <<>>) =>
        IF opres.op \in {"cause", "avoid", "trigger", "greatly_change"}
        THEN Added[1].tags = opres.result.loop[1].tags
        ELSE Added[1].tags =
                 SelectSeq(opres.result.loop[1].tags,
                           LAMBDA tag : tag \notin {"relive", "relive_partial",
                                                    "slightly_changed"})

(***************************************************************************)
(* C39  The inputs of a call are left as they were                         *)
(***************************************************************************)

\* C39: after any of the searches or an operator's execute has returned,
\* the caller's knowledge set and fact set hold what they held before, the
\* graph has the nodes and transitions it had, and the reference loop's
\* decision_trace is what storage held, so the next call starts from the
\* same inputs.
C39_InputsUnchanged ==
    objects.calls > 0 =>
        /\ objects.cells[1] = objects.given.knowledge
        /\ objects.cells[2] = objects.given.world_state
        /\ graph = objects.given.graph
        /\ storage = objects.given.storage
        /\ objects.last.decision_trace = objects.last.trace

\* a second call has returned: Trigger has made sets and lists of its own,
\* given the caller's knowledge set, an empty one
C39_Witness ==
    /\ objects.calls = MaxInvocations
    /\ objects.last.op = "trigger"
    /\ objects.last.made
    /\ objects.given.knowledge = {}

\* an operator with a reference loop has returned, having made objects, and
\* the list it was given holds the reference's trace
ReferenceTraceKept ==
    /\ objects.calls > 0
    /\ objects.last.op \in {"relive", "slightly_change", "greatly_change"}
    /\ objects.last.made
    /\ objects.last.trace # <<>>
    /\ objects.last.decision_trace = objects.last.trace


(**************************** Equivalence classes **************************)

\* The database of a LoopStorage as the class assignment sees it: the rows of
\* the loops table and the rows of the loop_classes table, each in the order
\* of insertion.  generate_loop_id and generate_class_id draw from uuid4; the
\* ids are taken to be distinct, and an id is the row's place in its table.
ClassStorage(loops, loop_classes) ==
    [attached |-> TRUE, loops |-> loops, loop_classes |-> loop_classes]

\* a Loop, with the fields the class assignment reads and writes
ClassedLoop(id, outcome_hash, knowledge_id) ==
    [id |-> id, outcome_hash |-> outcome_hash, knowledge_id |-> knowledge_id,
     class_id |-> None]

LoopClass(id, outcome_hash, knowledge_id, count, representative_id, sample_ids) ==
    [id |-> id, outcome_hash |-> outcome_hash, knowledge_id |-> knowledge_id,
     count |-> count, representative_id |-> representative_id,
     sample_ids |-> sample_ids]

sample_limit == 5

add_loop(loop_class, loop_id) ==
    [loop_class EXCEPT
        !.count = @ + 1,
        !.sample_ids = IF Len(@) < sample_limit THEN Append(@, loop_id) ELSE @]

generate_class_id(store) == Len(store.loop_classes) + 1

create_class_from_loop(loop, id) ==
    LoopClass(id, loop.outcome_hash, loop.knowledge_id, 1, loop.id, <<loop.id>>)

create_class(store, loop_class) ==
    [store EXCEPT !.loop_classes = Append(@, loop_class)]

\* "SELECT * ... WHERE outcome_hash = ? AND knowledge_id = ?" and fetchone()
get_class_by_equivalence(store, outcome_hash, knowledge_id) ==
    LET rows == SelectSeq(store.loop_classes,
                          LAMBDA row : /\ row.outcome_hash = outcome_hash
                                       /\ row.knowledge_id = knowledge_id)
    IN  IF rows = <<>> THEN <<>> ELSE <<rows[1]>>

\* "UPDATE loop_classes SET ... WHERE id = ?"
update_class(store, class_id, updates) ==
    IF DOMAIN updates = {} THEN store
    ELSE [store EXCEPT !.loop_classes =
            [i \in DOMAIN @ |-> IF @[i].id = class_id THEN updates @@ @[i] ELSE @[i]]]

\* "UPDATE loops SET ... WHERE id = ?"
update_loop(store, loop_id, updates) ==
    IF DOMAIN updates = {} THEN store
    ELSE [store EXCEPT !.loops =
            [i \in DOMAIN @ |-> IF @[i].id = loop_id THEN updates @@ @[i] ELSE @[i]]]

assign_loop_to_class(store, loop_id, class_id) ==
    update_loop(store, loop_id, [class_id |-> class_id])

\* the storage after the call and the LoopClass returned
get_or_create_class(store, loop) ==
    LET existing == get_class_by_equivalence(store, loop.outcome_hash, loop.knowledge_id)
    IN  IF existing # <<>>
        THEN LET added == add_loop(existing[1], loop.id)
                 updated == update_class(store, added.id,
                                [count |-> added.count, sample_ids |-> added.sample_ids])
             IN  [store |-> assign_loop_to_class(updated, loop.id, added.id),
                  class |-> added]
        ELSE LET new_class == create_class_from_loop(loop, generate_class_id(store))
             IN  [store |-> assign_loop_to_class(create_class(store, new_class),
                                                 loop.id, new_class.id),
                  class |-> new_class]

\* A storage is filled by create_loop and its loops are handed to
\* get_or_create_class, in any order and any number of times.  The loops a
\* caller stores have the hashes of one of the Runs, taken in turn: all of
\* one pair, or of pairs that share a hash.
MaxClassedLoops == 6
MaxAssignments == 6
Runs ==
    {<<[outcome_hash |-> "o1", knowledge_id |-> "k1"]>>,
     <<[outcome_hash |-> "o1", knowledge_id |-> "k1"],
       [outcome_hash |-> "o1", knowledge_id |-> "k2"],
       [outcome_hash |-> "o2", knowledge_id |-> "k1"]>>}

hashes_of(run, n) == run[((n - 1) % Len(run)) + 1]

NoAssignments(run) == [called |-> FALSE, op |-> "none", run |-> run, assigned |-> <<>>]

InitClasses ==
    /\ graph = create_empty_graph
    /\ storage = ClassStorage(<<>>, <<>>)
    /\ sim = NoSim
    /\ sim_prev = NoSim
    /\ choices = NoChoices
    /\ found = NoFound
    /\ objects = NoObjects
    /\ \E run \in Runs : opres = NoAssignments(run)

CreateLoop ==
    /\ Len(storage.loops) < MaxClassedLoops
    /\ LET loop_id == Len(storage.loops) + 1
           hashes == hashes_of(opres.run, loop_id)
       IN  storage' = create_loop(storage,
                        ClassedLoop(loop_id, hashes.outcome_hash, hashes.knowledge_id))
    /\ UNCHANGED <<graph, sim, sim_prev, choices, found, opres, objects>>

\* the caller's Loop object is the one it stored
GetOrCreateClass ==
    /\ Len(opres.assigned) < MaxAssignments
    /\ \E loop_id \in 1..Len(storage.loops) :
        LET stored == storage.loops[loop_id]
            loop == ClassedLoop(stored.id, stored.outcome_hash, stored.knowledge_id)
            returned == get_or_create_class(storage, loop)
        IN  /\ storage' = returned.store
            /\ opres' = [called |-> TRUE, op |-> "get_or_create_class",
                         run |-> opres.run,
                         assigned |-> Append(opres.assigned, loop_id),
                         result |-> returned.class]
    /\ UNCHANGED <<graph, sim, sim_prev, choices, found, objects>>

NextClasses == CreateLoop \/ GetOrCreateClass

SpecClasses == InitClasses /\ [][NextClasses]_vars

\* the ids of the loops handed to get_or_create_class so far
AssignedIds == {opres.assigned[i] : i \in DOMAIN opres.assigned}

equivalence_key(row) == <<row.outcome_hash, row.knowledge_id>>

\* the assigned loops a class holds
Members(loop_class) ==
    {loop_id \in AssignedIds : storage.loops[loop_id].class_id = loop_class.id}

ClassRows == {storage.loop_classes[i] : i \in DOMAIN storage.loop_classes}

\* one class for each pair among the assigned loops, and each assigned loop
\* names the class of its pair
ClassesPartitionAssigned ==
    /\ \A loop_id \in AssignedIds :
        \E loop_class \in ClassRows :
            /\ storage.loops[loop_id].class_id = loop_class.id
            /\ equivalence_key(loop_class) = equivalence_key(storage.loops[loop_id])
    /\ \A loop_class \in ClassRows :
        \E loop_id \in AssignedIds :
            equivalence_key(storage.loops[loop_id]) = equivalence_key(loop_class)
    /\ \A i, j \in DOMAIN storage.loop_classes :
        equivalence_key(storage.loop_classes[i]) = equivalence_key(storage.loop_classes[j])
            => i = j
    /\ \A i \in DOMAIN storage.loop_classes : storage.loop_classes[i].id = i

SamplesAreMembers ==
    \A loop_class \in ClassRows :
        /\ Len(loop_class.sample_ids) <= sample_limit
        /\ \A i \in DOMAIN loop_class.sample_ids :
            loop_class.sample_ids[i] \in Members(loop_class)

\* C40: after any sequence of create_loop and get_or_create_class calls,
\* storage holds exactly one class per (outcome_hash, knowledge_id) pair among
\* the assigned loops, each assigned loop's class_id names the class with its
\* pair, each class's count is the number of loops assigned to it, and its
\* sample_ids holds at most 5 ids, all of loops assigned to it.
C40_ClassesCountTheirLoops ==
    /\ ClassesPartitionAssigned
    /\ SamplesAreMembers
    /\ \A loop_class \in ClassRows :
        loop_class.count = Cardinality(Members(loop_class))

\* the only loop of a class was handed to get_or_create_class twice, and the
\* class counts two
C40_LoopCountedTwice ==
    /\ opres.called
    /\ Len(opres.assigned) = 2
    /\ opres.assigned[1] = opres.assigned[2]
    /\ opres.result.count = 2
    /\ Cardinality(Members(opres.result)) = 1

\* no loop has been handed to get_or_create_class twice
AssignedOnce ==
    \A i, j \in DOMAIN opres.assigned : opres.assigned[i] = opres.assigned[j] => i = j

\* as long as every loop is handed over once, the classes count their loops
ClassesCountLoopsAssignedOnce == AssignedOnce => C40_ClassesCountTheirLoops

\* a class's count is the number of get_or_create_class calls made with a loop
\* of its pair, and its samples are the loops of the first calls
ClassesCountCalls ==
    /\ ClassesPartitionAssigned
    /\ SamplesAreMembers
    /\ \A loop_class \in ClassRows :
        LET calls == SelectSeq(opres.assigned,
                        LAMBDA loop_id : storage.loops[loop_id].class_id = loop_class.id)
        IN  /\ loop_class.count = Len(calls)
            /\ loop_class.sample_ids = SubSeq(calls, 1, Min(Len(calls), sample_limit))
            /\ loop_class.representative_id = calls[1]

\* a sixth loop has joined a class, which keeps its five samples
SixthLoopNotSampled ==
    /\ opres.called
    /\ AssignedOnce
    /\ opres.result.count = 6
    /\ Len(opres.result.sample_ids) = sample_limit
====
